---- MODULE Spec2Model ----
(***************************************************************************)
(* Order lifecycle and inventory consistency of kuppams-backend.           *)
(*                                                                         *)
(* The persistent state is the three Mongo collections the order and cart  *)
(* controllers work on (products, carts, orders).  Spec runs the request   *)
(* handlers one at a time (each action is one whole handler); ConcSpec     *)
(* runs createOrder handlers of different users concurrently, one action   *)
(* per stretch of code between two awaits.                                 *)
(***************************************************************************)
EXTENDS Integers, Sequences, FiniteSets, TLC

\* ---------------------------------------------------------------- bounds
NumProducts == 2
NumUsers == 1
NumBuyers == 2
MaxStock == 2
MaxOrders == 2
MaxEntries == 4
MaxEdits == 1
NumOrderNumbers == 2
NumSessions == 2
MaxEvents == 2
MaxTime == 2
MaxRequests == 3
MaxRuns == 2
MaxLines == 3

Product == 1..NumProducts
User == 1..NumUsers
OrderNumber == 1..NumOrderNumbers
\* the users checking out concurrently in ConcSpec
Buyer == 1..NumBuyers
Quantity == 1..MaxStock

\* ------------------------------------------------------- schema constants
\* orderSchema.status enum
Statuses == {"placed", "accepted", "packing", "sent_to_delivery", "delivered", "cancelled"}
\* an optional request field that was not supplied
Absent == "none"
\* expectedDeliveryDate: null by default, or the date an administrator sent
NoDate == "null"
SomeDate == "date"

PlacedNote == "Order placed successfully"
CustomNote == "custom note"
GeneratedNote(previousStatus, status) ==
  "Status changed from " \o previousStatus \o " to " \o status
DeliveryNote == "Order sent to delivery. Expected delivery: date"

VARIABLES
  products,      \* Product collection: [exists, isActive, stock] by id
  carts,         \* Cart collection: [exists, items] by user (unique index on user)
  orders,        \* Order collection, in creation order
  initialStock,  \* history: the stock each product started with
  anyFailed,     \* history: some createOrder / updateOrderStatus call has failed
  trip,          \* history: the last cancellation, while no stock has changed since
  req,           \* ConcSpec: the in-flight createOrder request of each user
  prices,        \* Product collection: the [price, discount] fields by id
  total,         \* the total in the response of the last getCart, 0 before any
  sockets,       \* Socket.IO: [connected, user, rooms] of each client session
  inbox,         \* Socket.IO: the event kinds each session has received
  emitted,       \* Socket.IO: the events emitted to the admin room, in order
  adm,           \* StatusSpec: the in-flight updateOrderStatus request of each admin
  coupons,       \* Coupon collection, by (uppercase) code
  now,           \* the clock new Date() reads
  couponRes,     \* the response of the last validateCoupon
  orderRes,      \* the response of the last getOrder or PUT /:id/status
  adds,          \* AddSpec: the in-flight addToCart requests on one cart
  cartDocs,      \* OneCartSpec: the documents of the Cart collection
  jobs,          \* OneCartSpec: the in-flight requests of one user
  server,        \* ServerSpec: the HTTP server and the mongoose connection
  log            \* ServerSpec: the API requests answered so far

\* the state only the cart totals, the notifier and the concurrent status
\* updates work on
cartVars == <<prices, total>>
socketVars == <<sockets, inbox, emitted>>
couponVars == <<coupons, now, couponRes>>
lateVars == <<cartDocs, jobs, server, log>>
restVars == <<couponVars, orderRes, adds, lateVars>>
otherVars == <<cartVars, socketVars, adm, restVars>>

vars == <<products, carts, orders, initialStock, anyFailed, trip, req, otherVars>>

\* ------------------------------------------------------------ persistence
\* productSchema.stock: min 0, checked by every document save
StockValid(stock) == stock >= 0

\* product.save() after an in-memory change of stock: validates, then
\* $set's the in-memory value on the stored document
ProductSave(prods, p, stock) ==
  IF StockValid(stock) /\ prods[p].exists
    THEN [ok |-> TRUE, products |-> [prods EXCEPT ![p].stock = stock]]
    ELSE [ok |-> FALSE, products |-> prods]

\* populate("items.product"): the stored document of each line's product at
\* the time of the read (exists = FALSE stands for null)
Populate(items, prods) == [i \in 1..Len(items) |-> prods[items[i].product]]

RECURSIVE SumQty(_, _)
\* total quantity of product p over a sequence of line items
SumQty(items, p) ==
  IF items = <<>> THEN 0
  ELSE (IF Head(items).product = p THEN Head(items).quantity ELSE 0) + SumQty(Tail(items), p)

StockOf(prods) == [p \in Product |-> prods[p].stock]

IdleReq == [pc |-> "idle", items |-> <<>>, docs |-> <<>>, i |-> 0]

\* ------------------------------------------------------------------- Init
NoTrip == [phase |-> "none", order |-> 0, stock |-> [p \in Product |-> 0]]

\* the catalog the lifecycle runs start from: MaxStock units of the first
\* product and a last unit of every other one
FirstStock(p) == IF p = 1 THEN MaxStock ELSE 1

\* client sessions of the Socket.IO server and concurrent administrators
Session == 1..NumSessions
Admin == 1..NumBuyers

NoSocket == [connected |-> FALSE, user |-> Absent, rooms |-> {}]
\* no order document loaded
NoOrder == [user |-> 0, items |-> <<>>, totalAmount |-> 0, status |-> Absent,
            paymentStatus |-> Absent, expectedDeliveryDate |-> NoDate,
            statusTimeline |-> <<>>, orderNumber |-> 0]
IdleAdm == [pc |-> "idle", o |-> 0, order |-> NoOrder, status |-> Absent,
            expectedDeliveryDate |-> NoDate, note |-> Absent, docs |-> <<>>, i |-> 0]

\* the codes coupons are stored under, and no coupon under a code
StoredCodes == {"SAVE10"}
NoCoupon == [exists |-> FALSE, discountPercentage |-> 0, isActive |-> FALSE,
             expiryDate |-> 0, usageLimit |-> 0, usedCount |-> 0, minPurchaseAmount |-> 0]
NoCouponRes == [result |-> Absent, discountAmount |-> 0, finalAmount |-> 0]

\* no response yet
NoPrincipal == [id |-> 0, role |-> Absent]
NoOrderRes == [principal |-> NoPrincipal, result |-> Absent, order |-> NoOrder]

\* concurrent addToCart requests on the cart of the first buyer
Request == 1..NumBuyers
IdleAdd == [pc |-> "idle", p |-> 0, quantity |-> 0, stock |-> 0, op |-> Absent,
            index |-> 0, newQuantity |-> 0, version |-> 0, result |-> Absent]

\* a request slot of OneCartSpec that runs nothing
IdleJob == [pc |-> "idle", cart |-> 0, v |-> 0, items |-> <<>>, docs |-> <<>>, i |-> 0,
            p |-> 0, quantity |-> 0, stock |-> 0, op |-> Absent, index |-> 0,
            newQuantity |-> 0, runs |-> 0]

\* before startServer: nothing listens, mongoose.connection.readyState is 0
NotStarted == [listening |-> FALSE, readyState |-> 0]

\* the catalog prices the lifecycle runs use: a full-price and a discounted product
ListPrices ==
  [p \in Product |-> [name |-> "listed", price |-> 10 * p, discount |-> IF p = 1 THEN 0 ELSE 50]]

\* the state after startServer, before any request, over a given catalog
StartWith(stock, users, pr) ==
  /\ products = [p \in Product |-> [exists |-> TRUE, isActive |-> TRUE, stock |-> stock[p]]]
  /\ carts = [u \in users |-> [exists |-> FALSE, items |-> <<>>]]
  /\ orders = <<>>
  /\ initialStock = stock
  /\ anyFailed = FALSE
  /\ trip = NoTrip
  /\ req = [u \in users |-> IdleReq]
  /\ prices = pr
  /\ total = 0
  /\ sockets = [s \in Session |-> NoSocket]
  /\ inbox = [s \in Session |-> {}]
  /\ emitted = <<>>
  /\ adm = [a \in Admin |-> IdleAdm]
  /\ coupons = [c \in StoredCodes |-> NoCoupon]
  /\ now = 1
  /\ couponRes = NoCouponRes
  /\ orderRes = NoOrderRes
  /\ adds = [r \in Request |-> IdleAdd]
  /\ cartDocs = <<>>
  /\ jobs = [r \in Request |-> IdleJob]
  /\ server = NotStarted
  /\ log = <<>>

\* the state of the collections and of the history variables before any request
Start(stock, users) == StartWith(stock, users, ListPrices)

Init == Start([p \in Product |-> FirstStock(p)], User)

\* ------------------------------------------------------------ cart: add
\* A product id as a client writes it: the 24 hexadecimal digits of the id of
\* a product, in lower or in upper case; the validator (isMongoId) takes both.
ProductIdInputs == [product : Product, hex : {"lower", "upper"}]

\* ObjectId.prototype.toString(): the digits in lower case
toString(p) == [product |-> p, hex |-> "lower"]

\* the cast of the string to an ObjectId, which ignores the case of the digits
CastId(productId) == productId.product

\* cart.items.findIndex(item => item.product.toString() === productId): the
\* first line whose id, printed, is the string sent; 0 if there is none
RECURSIVE FindIndexFrom(_, _, _)
FindIndexFrom(items, productId, i) ==
  IF i > Len(items) THEN 0
  ELSE IF toString(items[i].product) = productId THEN i
  ELSE FindIndexFrom(items, productId, i + 1)

FindIndex(items, productId) == FindIndexFrom(items, productId, 1)

\* addToCart: the resulting [result, items] for the user's cart lines
AddToCartResult(items, product, productId, quantity) ==
  IF ~product.exists \/ ~product.isActive THEN [result |-> "NotFound", items |-> items]
  ELSE IF product.stock < quantity THEN [result |-> "InsufficientStock", items |-> items]
  ELSE LET itemIndex == FindIndex(items, productId) IN
    IF itemIndex > 0
      THEN LET newQuantity == items[itemIndex].quantity + quantity IN
        IF product.stock < newQuantity
          THEN [result |-> "InsufficientStock", items |-> items]
          ELSE [result |-> "ok", items |-> [items EXCEPT ![itemIndex].quantity = newQuantity]]
      ELSE [result |-> "ok",
            items |-> Append(items, [product |-> CastId(productId), quantity |-> quantity])]

\* addToCart, whole handler
addToCart(u, productId, quantity) ==
  LET product == products[CastId(productId)]
      found == product.exists /\ product.isActive /\ product.stock >= quantity
      r == AddToCartResult(carts[u].items, product, productId, quantity)
  IN
  /\ Len(r.items) <= MaxLines
  /\ carts' = IF found THEN [carts EXCEPT ![u] = [exists |-> TRUE, items |-> r.items]]
                       ELSE carts
  /\ UNCHANGED <<products, orders, initialStock, anyFailed, trip, req, otherVars>>

\* ------------------------------------------------- cart: the other handlers
\* productSchema.virtual("discountedPrice"), in hundredths of the currency unit
discountedPrice(product) ==
  IF product.discount > 0 THEN product.price * (100 - product.discount)
  ELSE product.price * 100

\* item.product.discountedPrice || item.product.price, in hundredths
LinePrice(product) ==
  IF discountedPrice(product) # 0 THEN discountedPrice(product) ELSE product.price * 100

\* cartSchema.methods.calculateTotal over the populated lines, in hundredths;
\* a line whose product is gone adds nothing
RECURSIVE calculateTotal(_, _, _, _)
calculateTotal(items, docs, pr, i) ==
  IF i > Len(items) THEN 0
  ELSE (IF docs[i].exists THEN LinePrice(pr[items[i].product]) * items[i].quantity ELSE 0)
       + calculateTotal(items, docs, pr, i + 1)

\* getCart: the cart is created when the user has none; the response carries
\* the total
getCart(u) ==
  /\ carts' = [carts EXCEPT ![u].exists = TRUE]
  /\ total' = calculateTotal(carts[u].items, Populate(carts[u].items, products), prices, 1)
  /\ UNCHANGED <<products, orders, initialStock, anyFailed, trip, req, prices, socketVars, adm, restVars>>

\* updateCartItem without the check against the product's stock
UpdateCartItemResultUnchecked(cart, prods, itemIndex, quantity) ==
  IF quantity < 1 THEN [result |-> "BadRequest", items |-> cart.items]
  ELSE IF ~cart.exists THEN [result |-> "NotFound", items |-> cart.items]
  ELSE IF itemIndex < 0 \/ itemIndex >= Len(cart.items)
    THEN [result |-> "NotFound", items |-> cart.items]
  ELSE [result |-> "ok", items |-> [cart.items EXCEPT ![itemIndex + 1].quantity = quantity]]

\* updateCartItem: the [result, items] of setting the quantity of the line at
\* the 0-based position itemIndex
UpdateCartItemResult(cart, prods, itemIndex, quantity) ==
  IF quantity < 1 THEN [result |-> "BadRequest", items |-> cart.items]
  ELSE IF ~cart.exists THEN [result |-> "NotFound", items |-> cart.items]
  ELSE IF itemIndex < 0 \/ itemIndex >= Len(cart.items)
    THEN [result |-> "NotFound", items |-> cart.items]
  ELSE LET product == prods[cart.items[itemIndex + 1].product] IN
    IF ~product.exists \/ ~product.isActive
      THEN [result |-> "NotFound", items |-> cart.items]
    ELSE IF product.stock < quantity
      THEN [result |-> "InsufficientStock", items |-> cart.items]
    ELSE [result |-> "ok", items |-> [cart.items EXCEPT ![itemIndex + 1].quantity = quantity]]

updateCartItem(u, itemIndex, quantity) ==
  /\ carts' = [carts EXCEPT ![u].items =
                 UpdateCartItemResult(carts[u], products, itemIndex, quantity).items]
  /\ UNCHANGED <<products, orders, initialStock, anyFailed, trip, req, otherVars>>

\* removeFromCart that gives the line's quantity to the product's stock
removeFromCartRestocking(u, itemIndex) ==
  LET cart == carts[u] IN
  /\ cart.exists /\ itemIndex >= 0 /\ itemIndex < Len(cart.items)
  /\ carts' = [carts EXCEPT ![u].items =
                 SubSeq(cart.items, 1, itemIndex)
                   \o SubSeq(cart.items, itemIndex + 2, Len(cart.items))]
  /\ products' = [products EXCEPT ![cart.items[itemIndex + 1].product].stock =
                    @ + cart.items[itemIndex + 1].quantity]
  /\ UNCHANGED <<orders, initialStock, anyFailed, trip, req, otherVars>>

\* removeFromCart: cart.items.splice(itemIndex, 1) when the position is in
\* the cart
removeFromCart(u, itemIndex) ==
  LET cart == carts[u] IN
  /\ carts' = IF cart.exists /\ itemIndex >= 0 /\ itemIndex < Len(cart.items)
                THEN [carts EXCEPT ![u].items =
                        SubSeq(cart.items, 1, itemIndex)
                          \o SubSeq(cart.items, itemIndex + 2, Len(cart.items))]
                ELSE carts
  /\ UNCHANGED <<products, orders, initialStock, anyFailed, trip, req, otherVars>>

\* clearCart: cart.items = [] when the user has a cart
clearCart(u) ==
  /\ carts' = IF carts[u].exists THEN [carts EXCEPT ![u].items = <<>>] ELSE carts
  /\ UNCHANGED <<products, orders, initialStock, anyFailed, trip, req, otherVars>>

\* ------------------------------------------------------ order: createOrder
\* the reservation of one line without its guards: a bare decrement of the
\* stored stock by an update that runs no schema validation
CreateOrderLineUnchecked(item, product, prods) ==
  [error |-> "none",
   products |-> [prods EXCEPT ![item.product].stock = @ - item.quantity]]

\* one pass of the for loop over cart.items: availability check, stock check,
\* in-memory decrement and product.save() of one line; product is the
\* populated document of the line
CreateOrderLine(item, product, prods) ==
  IF ~product.exists \/ ~product.isActive
    THEN [error |-> "ProductUnavailable", products |-> prods]
  ELSE IF product.stock < item.quantity
    THEN [error |-> "InsufficientStock", products |-> prods]
  ELSE LET saved == ProductSave(prods, item.product, product.stock - item.quantity) IN
    IF ~saved.ok THEN [error |-> "SaveError", products |-> prods]
    ELSE [error |-> "none", products |-> saved.products]

\* the for loop over cart.items, in cart order; it returns at the first
\* failing line with the earlier lines' saves already done
RECURSIVE CreateOrderLoop(_, _, _, _)
CreateOrderLoop(items, docs, prods, i) ==
  IF i > Len(items) THEN [error |-> "none", products |-> prods]
  ELSE LET r == CreateOrderLine(items[i], docs[i], prods) IN
    IF r.error # "none" THEN r
    ELSE CreateOrderLoop(items, docs, r.products, i + 1)

\* the order items in reverse cart order (unshift instead of push)
OrderItemsReversed(items) ==
  [i \in 1..Len(items) |->
     LET item == items[Len(items) + 1 - i] IN
     [product |-> item.product, name |-> prices[item.product].name,
      quantity |-> item.quantity, price |-> prices[item.product].price,
      discount |-> prices[item.product].discount]]

\* orderItems.push({product, name, quantity, price, discount}) for every cart
\* line, from the populated product
OrderItems(items) ==
  [i \in 1..Len(items) |->
     [product |-> items[i].product, name |-> prices[items[i].product].name,
      quantity |-> items[i].quantity, price |-> prices[items[i].product].price,
      discount |-> prices[items[i].product].discount]]

\* totalAmount += (product.discountedPrice || product.price) * item.quantity
\* over the cart lines from the i-th on, in hundredths
RECURSIVE TotalAmount(_, _)
TotalAmount(items, i) ==
  IF i > Len(items) THEN 0
  ELSE LinePrice(prices[items[i].product]) * items[i].quantity + TotalAmount(items, i + 1)

\* orderSchema.pre("save"): seed the timeline of a new order that has none
PreSaveTimeline(order) ==
  IF order.statusTimeline = <<>>
    THEN [order EXCEPT !.statusTimeline =
            <<[status |-> order.status, note |-> PlacedNote]>>]
    ELSE order

\* the document Order.create persists
NewOrder(u, items, n) ==
  PreSaveTimeline([user |-> u, items |-> OrderItems(items),
                   totalAmount |-> TotalAmount(items, 1), status |-> "placed",
                   paymentStatus |-> "pending", expectedDeliveryDate |-> NoDate,
                   statusTimeline |-> <<[status |-> "placed", note |-> PlacedNote]>>,
                   orderNumber |-> n])

OrderNumbersInUse == {orders[k].orderNumber : k \in 1..Len(orders)}

\* the pending cancellation is forgotten as soon as any stock changes
TripKept(prods) == IF prods = products THEN trip ELSE NoTrip

\* createOrder, whole handler; n is the order number the pre-save hook draws
createOrder(u, n) ==
  LET cart == carts[u] IN
  /\ Len(orders) < MaxOrders
  /\ IF ~cart.exists \/ Len(cart.items) = 0
       THEN /\ anyFailed' = TRUE
            /\ UNCHANGED <<products, carts, orders>>
       ELSE LET r == CreateOrderLoop(cart.items, Populate(cart.items, products), products, 1) IN
            /\ products' = r.products
            /\ IF r.error # "none"
                 THEN /\ anyFailed' = TRUE
                      /\ UNCHANGED <<carts, orders>>
               ELSE IF n \in OrderNumbersInUse
                 THEN /\ anyFailed' = TRUE
                      /\ UNCHANGED <<carts, orders>>
               ELSE /\ orders' = Append(orders, NewOrder(u, cart.items, n))
                    /\ carts' = [carts EXCEPT ![u].items = <<>>]
                    /\ UNCHANGED anyFailed
  /\ trip' = TripKept(products')
  /\ UNCHANGED <<initialStock, req, otherVars>>

\* ------------------------------------------------ order: updateOrderStatus
\* a cancellation loop that dereferences the product of every item and so
\* fails at an item whose product is gone
RECURSIVE RestoreLoopUnguarded(_, _, _, _)
RestoreLoopUnguarded(items, docs, prods, i) ==
  IF i > Len(items) THEN [error |-> "none", products |-> prods]
  ELSE IF ~docs[i].exists THEN [error |-> "TypeError", products |-> prods]
  ELSE LET saved == ProductSave(prods, items[i].product, docs[i].stock + items[i].quantity) IN
    IF ~saved.ok THEN [error |-> "SaveError", products |-> prods]
    ELSE RestoreLoopUnguarded(items, docs, saved.products, i + 1)

\* cancellation loop: product.stock += item.quantity; product.save() for
\* every item whose product still exists
RECURSIVE RestoreLoop(_, _, _, _)
RestoreLoop(items, docs, prods, i) ==
  IF i > Len(items) THEN [error |-> "none", products |-> prods]
  ELSE LET item == items[i]
           product == docs[i]
       IN
    IF ~product.exists THEN RestoreLoop(items, docs, prods, i + 1)
    ELSE LET saved == ProductSave(prods, item.product, product.stock + item.quantity) IN
      IF ~saved.ok THEN [error |-> "SaveError", products |-> prods]
      ELSE RestoreLoop(items, docs, saved.products, i + 1)

\* the reactivation loop with the stock check but without the decrement
RECURSIVE ReduceLoopNoDecrement(_, _, _, _)
ReduceLoopNoDecrement(items, docs, prods, i) ==
  IF i > Len(items) THEN [error |-> "none", products |-> prods]
  ELSE IF docs[i].exists /\ docs[i].stock < items[i].quantity
    THEN [error |-> "InsufficientStock", products |-> prods]
  ELSE ReduceLoopNoDecrement(items, docs, prods, i + 1)

\* reactivation loop: per item, stock check then decrement and save; returns
\* 400 at the first insufficient item with the earlier items' saves done
RECURSIVE ReduceLoop(_, _, _, _)
ReduceLoop(items, docs, prods, i) ==
  IF i > Len(items) THEN [error |-> "none", products |-> prods]
  ELSE LET item == items[i]
           product == docs[i]
       IN
    IF ~product.exists THEN ReduceLoop(items, docs, prods, i + 1)
    ELSE IF product.stock < item.quantity
      THEN [error |-> "InsufficientStock", products |-> prods]
    ELSE LET saved == ProductSave(prods, item.product, product.stock - item.quantity) IN
      IF ~saved.ok THEN [error |-> "SaveError", products |-> prods]
      ELSE ReduceLoop(items, docs, saved.products, i + 1)

\* stock restored on every cancellation, that of a delivered order included
RestoresStockFromDelivered(previousStatus, status) ==
  status = "cancelled" /\ previousStatus # "cancelled"

\* stock restored only when a freshly placed order is cancelled
RestoresStockFromPlaced(previousStatus, status) ==
  status = "cancelled" /\ previousStatus = "placed"

\* status === "cancelled" && previousStatus !== "cancelled" && previousStatus !== "delivered"
RestoresStock(previousStatus, status) ==
  status = "cancelled" /\ previousStatus # "cancelled" /\ previousStatus # "delivered"

\* stock reduced on every change to a status other than cancelled
ReducesStockOnAnyChange(previousStatus, status) == status # "cancelled"

\* stock reduced again only when the order goes back to placed
ReducesStockToPlaced(previousStatus, status) ==
  previousStatus = "cancelled" /\ status = "placed"

\* previousStatus === "cancelled" && status !== "cancelled"
ReducesStock(previousStatus, status) ==
  previousStatus = "cancelled" /\ status # "cancelled"

\* the test without its comparison to the previous status
StatusChangesAlways(previousStatus, status) == status # Absent

\* if (status && status !== previousStatus)
StatusChanges(previousStatus, status) == status # Absent /\ status # previousStatus

\* a reconciliation that treats delivered as final and refuses to leave it
ReconcileDeliveredFinal(order, prods, status) ==
  LET previousStatus == order.status
      docs == Populate(order.items, prods)
  IN
  IF ~StatusChanges(previousStatus, status) THEN [error |-> "none", products |-> prods]
  ELSE IF previousStatus = "delivered" THEN [error |-> "InvalidTransition", products |-> prods]
  ELSE IF RestoresStock(previousStatus, status) THEN RestoreLoop(order.items, docs, prods, 1)
  ELSE IF ReducesStock(previousStatus, status) THEN ReduceLoop(order.items, docs, prods, 1)
  ELSE [error |-> "none", products |-> prods]

\* the stock reconciliation of a status change
Reconcile(order, prods, status) ==
  LET previousStatus == order.status
      docs == Populate(order.items, prods)
  IN
  IF ~StatusChanges(previousStatus, status) THEN [error |-> "none", products |-> prods]
  ELSE IF RestoresStock(previousStatus, status) THEN RestoreLoop(order.items, docs, prods, 1)
  ELSE IF ReducesStock(previousStatus, status) THEN ReduceLoop(order.items, docs, prods, 1)
  ELSE [error |-> "none", products |-> prods]

\* the status assigned without an entry pushed on the timeline
ApplyStatusNoPush(order, status, note) ==
  IF StatusChanges(order.status, status) THEN [order EXCEPT !.status = status] ELSE order

\* the push with the generated message whatever note was sent
ApplyStatusGeneratedNote(order, status, note) ==
  IF StatusChanges(order.status, status)
    THEN [order EXCEPT
            !.status = status,
            !.statusTimeline = Append(@, [status |-> status,
               note |-> GeneratedNote(order.status, status)])]
    ELSE order

\* order.status = status; order.statusTimeline.push({status, note: note || generated})
ApplyStatus(order, status, note) ==
  IF StatusChanges(order.status, status)
    THEN [order EXCEPT
            !.status = status,
            !.statusTimeline = Append(@, [status |-> status,
               note |-> IF note # Absent THEN note ELSE GeneratedNote(order.status, status)])]
    ELSE order

\* if (paymentStatus) order.paymentStatus = paymentStatus
ApplyPaymentStatus(order, paymentStatus) ==
  IF paymentStatus # Absent THEN [order EXCEPT !.paymentStatus = paymentStatus] ELSE order

\* the back-patch of the last timeline note whatever the status is
ApplyDeliveryDateAnyStatus(order, expectedDeliveryDate) ==
  IF expectedDeliveryDate = NoDate THEN order
  ELSE LET dated == [order EXCEPT !.expectedDeliveryDate = expectedDeliveryDate]
           n == Len(order.statusTimeline)
       IN
    IF n > 0 THEN [dated EXCEPT !.statusTimeline[n].note = DeliveryNote] ELSE dated

\* if (expectedDeliveryDate): set it and back-patch the last timeline note
ApplyDeliveryDate(order, expectedDeliveryDate) ==
  IF expectedDeliveryDate = NoDate THEN order
  ELSE LET dated == [order EXCEPT !.expectedDeliveryDate = expectedDeliveryDate]
           n == Len(order.statusTimeline)
       IN
    IF dated.status = "sent_to_delivery" /\ n > 0
       /\ dated.statusTimeline[n].status = "sent_to_delivery"
      THEN [dated EXCEPT !.statusTimeline[n].note = DeliveryNote]
      ELSE dated

\* the document with its items copied again from the products as they are now
UpdatedOrderRepopulated(order, status, paymentStatus, expectedDeliveryDate, note) ==
  [ApplyDeliveryDate(ApplyPaymentStatus(ApplyStatus(order, status, note), paymentStatus),
                     expectedDeliveryDate)
     EXCEPT !.items = OrderItems(order.items)]

\* the changes of the document with the delivery date handled before the status
UpdatedOrderDateFirst(order, status, paymentStatus, expectedDeliveryDate, note) ==
  ApplyPaymentStatus(ApplyStatus(ApplyDeliveryDate(order, expectedDeliveryDate), status, note),
                     paymentStatus)

\* the document order.save() persists
UpdatedOrder(order, status, paymentStatus, expectedDeliveryDate, note) ==
  ApplyDeliveryDate(ApplyPaymentStatus(ApplyStatus(order, status, note), paymentStatus),
                    expectedDeliveryDate)

RECURSIVE SumLen(_, _)
SumLen(os, k) == IF k > Len(os) THEN 0 ELSE Len(os[k].statusTimeline) + SumLen(os, k + 1)
\* timeline entries persisted over all orders
TimelineEntries == SumLen(orders, 1)

\* history of a cancel / reactivate round trip of order o
TripAfter(o, previousStatus, status, prods) ==
  IF ~StatusChanges(previousStatus, status) THEN TripKept(prods)
  ELSE IF status = "cancelled"
    THEN [phase |-> "cancelled", order |-> o, stock |-> StockOf(products)]
  ELSE IF previousStatus = "cancelled" THEN NoTrip
  ELSE TripKept(prods)

\* updateOrderStatus, whole handler
updateOrderStatus(o, status, paymentStatus, expectedDeliveryDate, note) ==
  /\ (o <= Len(orders) /\ StatusChanges(orders[o].status, status)) => TimelineEntries < MaxEntries
  /\ IF o > Len(orders)
       THEN /\ anyFailed' = TRUE
            /\ UNCHANGED <<products, orders, trip>>
       ELSE LET order == orders[o]
                r == Reconcile(order, products, status)
            IN
            /\ products' = r.products
            /\ IF r.error # "none"
                 THEN /\ anyFailed' = TRUE
                      /\ trip' = TripKept(r.products)
                      /\ UNCHANGED orders
                 ELSE /\ orders' = [orders EXCEPT ![o] =
                            UpdatedOrder(order, status, paymentStatus, expectedDeliveryDate, note)]
                      /\ trip' = TripAfter(o, order.status, status, r.products)
                      /\ UNCHANGED anyFailed
  /\ UNCHANGED <<carts, initialStock, req, otherVars>>

\* --------------------------------------------------------- catalog edits
\* products an administrator has deactivated or deleted
Edited == {p \in Product : ~products[p].exists \/ ~products[p].isActive}

\* PUT /api/products/:id with isActive in the body
updateProduct(p, isActive) ==
  /\ products[p].exists
  /\ Cardinality(Edited \cup {p}) <= MaxEdits
  /\ products' = [products EXCEPT ![p].isActive = isActive]
  /\ trip' = NoTrip
  /\ UNCHANGED <<carts, orders, initialStock, anyFailed, req, otherVars>>

\* DELETE /api/products/:id
deleteProduct(p) ==
  /\ products[p].exists
  /\ Cardinality(Edited \cup {p}) <= MaxEdits
  /\ products' = [products EXCEPT ![p] = [exists |-> FALSE, isActive |-> FALSE, stock |-> 0]]
  /\ trip' = NoTrip
  /\ UNCHANGED <<carts, orders, initialStock, anyFailed, req, otherVars>>

\* the products whose name, price or discount an administrator has changed
Repriced == {p \in Product : prices[p] # ListPrices[p]}

\* PUT /api/products/:id with name, price and discount in the body
updateProductPricing(p, pr) ==
  /\ products[p].exists
  /\ pr # prices[p]
  /\ Cardinality(Repriced \cup {p}) <= MaxEdits
  /\ prices' = [prices EXCEPT ![p] = pr]
  /\ UNCHANGED <<products, carts, orders, initialStock, anyFailed, trip, req,
                 total, socketVars, adm, restVars>>

ActiveInputs == {FALSE}
StatusInputs == Statuses \cup {Absent}
\* the optional fields of the request body, as sent together
OptionInputs ==
  {[paymentStatus |-> Absent, expectedDeliveryDate |-> NoDate, note |-> Absent],
   [paymentStatus |-> "paid", expectedDeliveryDate |-> SomeDate, note |-> Absent]}

Next ==
  \/ \E u \in User, p \in Product, q \in Quantity : addToCart(u, toString(p), q)
  \/ \E u \in User, n \in OrderNumber : createOrder(u, n)
  \/ \E o \in 1..MaxOrders, status \in StatusInputs, opt \in OptionInputs :
       updateOrderStatus(o, status, opt.paymentStatus, opt.expectedDeliveryDate, opt.note)


Spec == Init /\ [][Next]_vars

\* ------------------------------------------- checkout over an edited catalog
\* Carts and checkouts while administrators withdraw products.
CatalogInit == Start([p \in Product |-> MaxStock], User)

CatalogNext ==
  \/ \E u \in User, p \in Product, q \in Quantity : addToCart(u, toString(p), q)
  \/ \E u \in User, n \in OrderNumber : createOrder(u, n)
  \/ \E p \in Product, isActive \in ActiveInputs : updateProduct(p, isActive)
  \/ \E p \in Product : deleteProduct(p)

CatalogSpec == CatalogInit /\ [][CatalogNext]_vars

\* ------------------------------------------- concurrent createOrder requests
\* Each buyer runs one createOrder; an action is the code between two awaits.
ConcInit == Start([p \in Product |-> FirstStock(p)], Buyer)

\* a buyer fills the cart before checking out
coAddToCart(u, p, quantity) ==
  /\ req[u].pc = "idle"
  /\ addToCart(u, toString(p), quantity)

\* Cart.findOne({user}).populate("items.product") and the empty-cart check
coLoadCart(u) ==
  /\ req[u].pc = "idle"
  /\ carts[u].exists
  /\ IF Len(carts[u].items) = 0
       THEN /\ req' = [req EXCEPT ![u].pc = "failed"]
            /\ anyFailed' = TRUE
       ELSE /\ req' = [req EXCEPT ![u] = [pc |-> "loop", items |-> carts[u].items,
                                          docs |-> Populate(carts[u].items, products),
                                          i |-> 1]]
            /\ UNCHANGED anyFailed
  /\ UNCHANGED <<products, carts, orders, initialStock, trip, otherVars>>

\* one line of the loop, up to and including await product.save()
coLine(u) ==
  /\ req[u].pc = "loop"
  /\ req[u].i <= Len(req[u].items)
  /\ LET r == CreateOrderLine(req[u].items[req[u].i], req[u].docs[req[u].i], products) IN
     /\ products' = r.products
     /\ IF r.error # "none"
          THEN /\ req' = [req EXCEPT ![u].pc = "failed"]
               /\ anyFailed' = TRUE
          ELSE /\ req' = [req EXCEPT ![u].i = @ + 1]
               /\ UNCHANGED anyFailed
  /\ UNCHANGED <<carts, orders, initialStock, trip, otherVars>>

\* await Order.create(...)
coCreate(u, n) ==
  /\ req[u].pc = "loop"
  /\ req[u].i > Len(req[u].items)
  /\ Len(orders) < MaxOrders
  /\ IF n \in OrderNumbersInUse
       THEN /\ req' = [req EXCEPT ![u].pc = "failed"]
            /\ anyFailed' = TRUE
            /\ UNCHANGED orders
       ELSE /\ orders' = Append(orders, NewOrder(u, req[u].items, n))
            /\ req' = [req EXCEPT ![u].pc = "clear"]
            /\ UNCHANGED anyFailed
  /\ UNCHANGED <<products, carts, initialStock, trip, otherVars>>

\* cart.items = []; await cart.save()
coClearCart(u) ==
  /\ req[u].pc = "clear"
  /\ carts' = [carts EXCEPT ![u].items = <<>>]
  /\ req' = [req EXCEPT ![u].pc = "done"]
  /\ UNCHANGED <<products, orders, initialStock, anyFailed, trip, otherVars>>

ConcNext ==
  \/ \E u \in Buyer, p \in Product, q \in Quantity : coAddToCart(u, p, q)
  \/ \E u \in Buyer : coLoadCart(u)
  \/ \E u \in Buyer : coLine(u)
  \/ \E u \in Buyer, n \in OrderNumber : coCreate(u, n)
  \/ \E u \in Buyer : coClearCart(u)

ConcSpec == ConcInit /\ [][ConcNext]_vars

\* ------------------------------------- concurrent updateOrderStatus requests
\* order.save() that replaces the stored document by the in-memory one
OrderSaveOverwrite(stored, loaded, doc) == [ok |-> TRUE, order |-> doc]

\* order.save() of a document that was loaded as loaded and is now doc, on
\* the stored document: the changed fields are $set, the entries pushed on
\* the timeline are $push'ed on the stored array, and a changed note of a
\* loaded entry is $set by its position, which the save refuses
\* (VersionError) when the stored array has grown since the load
OrderSave(stored, loaded, doc) ==
  LET n == Len(loaded.statusTimeline)
      pushed == SubSeq(doc.statusTimeline, n + 1, Len(doc.statusTimeline))
      patched == {k \in 1..n : doc.statusTimeline[k].note # loaded.statusTimeline[k].note}
  IN
  IF patched # {} /\ Len(stored.statusTimeline) # n THEN [ok |-> FALSE, order |-> stored]
  ELSE [ok |-> TRUE,
        order |-> [stored EXCEPT
          !.status = IF doc.status # loaded.status THEN doc.status ELSE @,
          !.paymentStatus = IF doc.paymentStatus # loaded.paymentStatus
                              THEN doc.paymentStatus ELSE @,
          !.expectedDeliveryDate = IF doc.expectedDeliveryDate # loaded.expectedDeliveryDate
                                     THEN doc.expectedDeliveryDate ELSE @,
          !.statusTimeline =
             [k \in 1..Len(@) |-> IF k \in patched THEN doc.statusTimeline[k] ELSE @[k]]
               \o pushed]]

\* Order.findById and the choice of the stock loop of the status change
stFind(a, o, status, expectedDeliveryDate, note) ==
  /\ adm[a].pc = "idle"
  /\ IF o > Len(orders)
       THEN /\ adm' = [adm EXCEPT ![a].pc = "failed"]
            /\ anyFailed' = TRUE
       ELSE LET order == orders[o]
                loop == IF ~StatusChanges(order.status, status) THEN "save"
                        ELSE IF RestoresStock(order.status, status) THEN "restore"
                        ELSE IF ReducesStock(order.status, status) THEN "reduce"
                        ELSE "save"
            IN
            /\ adm' = [adm EXCEPT ![a] =
                 [pc |-> loop, o |-> o, order |-> order, status |-> status,
                  expectedDeliveryDate |-> expectedDeliveryDate, note |-> note,
                  docs |-> IF loop = "save" THEN <<>> ELSE Populate(order.items, products),
                  i |-> 1]]
            /\ UNCHANGED anyFailed
  /\ UNCHANGED <<products, carts, orders, initialStock, trip, req, cartVars, socketVars, restVars>>

\* one item of the restore or of the reduce loop, up to await product.save()
stLine(a) ==
  LET r == adm[a]
      item == r.order.items[r.i]
      product == r.docs[r.i]
      saved == ProductSave(products, item.product,
                           IF r.pc = "restore" THEN product.stock + item.quantity
                                               ELSE product.stock - item.quantity)
  IN
  /\ r.pc \in {"restore", "reduce"}
  /\ r.i <= Len(r.order.items)
  /\ IF ~product.exists
       THEN /\ adm' = [adm EXCEPT ![a].i = @ + 1]
            /\ UNCHANGED <<products, anyFailed>>
     ELSE IF (r.pc = "reduce" /\ product.stock < item.quantity) \/ ~saved.ok
       THEN /\ adm' = [adm EXCEPT ![a].pc = "failed"]
            /\ anyFailed' = TRUE
            /\ UNCHANGED products
     ELSE /\ products' = saved.products
          /\ adm' = [adm EXCEPT ![a].i = @ + 1]
          /\ UNCHANGED anyFailed
  /\ trip' = NoTrip
  /\ UNCHANGED <<carts, orders, initialStock, req, cartVars, socketVars, restVars>>

\* the changes of the in-memory order and await order.save()
stSave(a) ==
  LET r == adm[a]
      saved == OrderSave(orders[r.o], r.order,
                         UpdatedOrder(r.order, r.status, Absent, r.expectedDeliveryDate, r.note))
  IN
  /\ \/ r.pc = "save"
     \/ r.pc \in {"restore", "reduce"} /\ r.i > Len(r.order.items)
  /\ orders' = [orders EXCEPT ![r.o] = saved.order]
  /\ adm' = [adm EXCEPT ![a].pc = IF saved.ok THEN "done" ELSE "failed"]
  /\ anyFailed' = (anyFailed \/ ~saved.ok)
  /\ trip' = NoTrip
  /\ UNCHANGED <<products, carts, initialStock, req, cartVars, socketVars, restVars>>

\* customers order before the administrators start
AllIdle == \A a \in Admin : adm[a].pc = "idle"

\* the delivery date and the note of the request body
StatusOptionInputs ==
  {[expectedDeliveryDate |-> NoDate, note |-> Absent],
   [expectedDeliveryDate |-> SomeDate, note |-> Absent],
   [expectedDeliveryDate |-> NoDate, note |-> CustomNote]}

StatusInit == Start([p \in Product |-> 1], User)

StatusNext ==
  \/ \E u \in User, p \in Product : AllIdle /\ addToCart(u, toString(p), 1)
  \/ \E u \in User, n \in OrderNumber : AllIdle /\ createOrder(u, n)
  \/ \E a \in Admin, o \in 1..MaxOrders, status \in StatusInputs, opt \in StatusOptionInputs :
       stFind(a, o, status, opt.expectedDeliveryDate, opt.note)
  \/ \E a \in Admin : stLine(a)
  \/ \E a \in Admin : stSave(a)

StatusSpec == StatusInit /\ [][StatusNext]_vars

\* ------------------------------------------------------------ cart handlers
\* Two customers fill and edit their carts and check out from the same stock,
\* while an administrator withdraws a product.
CartInit == Start([p \in Product |-> FirstStock(p)], Buyer)

\* the 0-based positions and the quantities a client sends
IndexInputs == 0..NumProducts
QuantityInputs == 0..MaxStock

CartNext ==
  \/ \E u \in Buyer : getCart(u)
  \/ \E u \in Buyer, p \in Product, q \in Quantity : addToCart(u, toString(p), q)
  \/ \E u \in Buyer, i \in IndexInputs, q \in QuantityInputs : updateCartItem(u, i, q)
  \/ \E u \in Buyer, i \in IndexInputs : removeFromCart(u, i)
  \/ \E u \in Buyer : clearCart(u)
  \/ \E u \in Buyer, n \in OrderNumber : createOrder(u, n)
  \/ \E p \in Product, isActive \in ActiveInputs : updateProduct(p, isActive)

CartSpec == CartInit /\ [][CartNext]_vars

\* ------------------------------------------------------------- cart lines
\* The cart handlers of one user, with product ids in both spellings.
LineInit == Start([p \in Product |-> FirstStock(p)], User)

LineNext ==
  \/ \E u \in User : getCart(u)
  \/ \E u \in User, productId \in ProductIdInputs, q \in Quantity : addToCart(u, productId, q)
  \/ \E u \in User, i \in IndexInputs, q \in QuantityInputs : updateCartItem(u, i, q)
  \/ \E u \in User, i \in IndexInputs : removeFromCart(u, i)
  \/ \E u \in User : clearCart(u)
  \/ \E u \in User, n \in OrderNumber : createOrder(u, n)

LineSpec == LineInit /\ [][LineNext]_vars

\* ---------------------------------------------------------------- cart total
\* the prices and discounts of the catalog the totals are computed over
PriceInputs ==
  {[name |-> "listed", price |-> pr, discount |-> d] : pr \in {0, 10}, d \in {0, 25, 100}}

TotalInit ==
  \E pr \in [Product -> PriceInputs] :
    StartWith([p \in Product |-> FirstStock(p)], User, pr)

TotalNext ==
  \/ \E u \in User, p \in Product, q \in Quantity : addToCart(u, toString(p), q)
  \/ \E u \in User : getCart(u)

TotalSpec == TotalInit /\ [][TotalNext]_vars

\* -------------------------------------------------------------- order total
\* Checkouts over catalogs of every price and discount.
OrderTotalNext ==
  \/ \E u \in User, p \in Product, q \in Quantity : addToCart(u, toString(p), q)
  \/ \E u \in User, n \in OrderNumber : createOrder(u, n)

OrderTotalSpec == TotalInit /\ [][OrderTotalNext]_vars

\* ------------------------------------------------------------ item snapshots
\* Orders of single units while administrators rename, reprice and delete
\* products and move the orders on.
SnapshotInit == Start([p \in Product |-> 1], User)

\* what an administrator changes a product's name, price and discount to
PricingInputs ==
  {[name |-> "renamed", price |-> 10, discount |-> 0],
   [name |-> "listed", price |-> 30, discount |-> 25]}

SnapshotNext ==
  \/ \E u \in User, p \in Product : addToCart(u, toString(p), 1)
  \/ \E u \in User, n \in OrderNumber : createOrder(u, n)
  \/ \E p \in Product, pr \in PricingInputs : updateProductPricing(p, pr)
  \/ \E p \in Product : deleteProduct(p)
  \/ \E o \in 1..MaxOrders, status \in {"accepted", "cancelled"} :
       updateOrderStatus(o, status, Absent, NoDate, Absent)

SnapshotSpec == SnapshotInit /\ [][SnapshotNext]_vars

\* ------------------------------------------------------ realtime notifier
\* the User collection the tokens refer to; no handler changes a role
Accounts ==
  [u \in {"admin", "customer", "removed"} |->
     [exists |-> u # "removed", role |-> IF u = "admin" THEN "admin" ELSE "user"]]

\* what a client puts in handshake.auth.token: nothing, a token that does not
\* verify, or a signed token of an account
TokenInputs == {Absent, "invalid"} \cup DOMAIN Accounts

\* authenticateSocket: the user attached to the socket, Absent when refused
authenticateSocket(token) ==
  IF token = Absent THEN Absent
  ELSE IF token \notin DOMAIN Accounts THEN Absent
  ELSE IF ~Accounts[token].exists THEN Absent
  ELSE token

\* the room test that lets every authenticated user in
isAdminAnyUser(user) == user # Absent

\* isAdmin: socket.user && socket.user.role === "admin"
isAdmin(user) == user # Absent /\ Accounts[user].role = "admin"

EventKinds == {"order:new", "order:status-updated"}

\* io.use(authenticateSocket) and the connection handler of a new socket
connection(s, token) ==
  LET user == authenticateSocket(token) IN
  /\ ~sockets[s].connected
  /\ IF user = Absent
       THEN UNCHANGED <<sockets, inbox>>
       ELSE /\ sockets' = [sockets EXCEPT ![s] =
                 [connected |-> TRUE, user |-> user,
                  rooms |-> IF isAdmin(user) THEN {"admin"} ELSE {}]]
            /\ inbox' = [inbox EXCEPT ![s] =
                 IF isAdmin(user) THEN {"admin:connected"} ELSE {}]
  /\ UNCHANGED <<products, carts, orders, initialStock, anyFailed, trip, req,
                 cartVars, emitted, adm, restVars>>

\* a client goes away: the socket leaves its rooms
disconnect(s) ==
  /\ sockets[s].connected
  /\ sockets' = [sockets EXCEPT ![s] = NoSocket]
  /\ UNCHANGED <<products, carts, orders, initialStock, anyFailed, trip, req,
                 cartVars, inbox, emitted, adm, restVars>>

\* io.to("admin").emit(kind, ...): every socket in the room receives it
EmitToAdmin(kind) ==
  /\ Len(emitted) < MaxEvents
  /\ emitted' = Append(emitted, kind)
  /\ inbox' = [s \in Session |->
       IF "admin" \in sockets[s].rooms THEN inbox[s] \cup {kind} ELSE inbox[s]]
  /\ UNCHANGED <<products, carts, orders, initialStock, anyFailed, trip, req,
                 cartVars, sockets, adm, restVars>>

emitNewOrder == EmitToAdmin("order:new")

emitOrderStatusUpdate == EmitToAdmin("order:status-updated")

SocketInit == Start([p \in Product |-> FirstStock(p)], User)

SocketNext ==
  \/ \E s \in Session, token \in TokenInputs : connection(s, token)
  \/ \E s \in Session : disconnect(s)
  \/ emitNewOrder
  \/ emitOrderStatusUpdate

SocketSpec == SocketInit /\ [][SocketNext]_vars

\* ----------------------------------------------- timeline of status changes
\* Orders of the one unit of the first product; administrators send notes and
\* delivery dates.
TimelineInit == Start([p \in Product |-> 1], User)

\* the note and the delivery date of the request body, alone and together
NoteInputs ==
  {[paymentStatus |-> Absent, expectedDeliveryDate |-> d, note |-> n] :
     d \in {NoDate, SomeDate}, n \in {Absent, CustomNote}}

TimelineNext ==
  \/ \E u \in User : addToCart(u, toString(1), 1)
  \/ \E u \in User, n \in OrderNumber : createOrder(u, n)
  \/ \E o \in 1..MaxOrders, status \in StatusInputs, opt \in NoteInputs :
       updateOrderStatus(o, status, opt.paymentStatus, opt.expectedDeliveryDate, opt.note)

TimelineSpec == TimelineInit /\ [][TimelineNext]_vars

\* ------------------------------------------------------------------ coupons
\* The Coupon collection holds at most one coupon per code.  A missing expiry
\* date or usage cap (null) is 0; dates are clock readings from 1 on; money is
\* in hundredths of the currency unit (cents).

\* String.prototype.toUpperCase on the codes used
toUpperCase(code) == IF code = "save10" THEN "SAVE10" ELSE code

\* Coupon.findOne({ code: code.toUpperCase() })
FindCoupon(stored, code) ==
  IF toUpperCase(code) \in StoredCodes THEN stored[toUpperCase(code)] ELSE NoCoupon

\* couponSchema.virtual("isValid")
isValid(coupon, time) ==
  IF ~coupon.isActive THEN FALSE
  ELSE IF coupon.expiryDate # 0 /\ time > coupon.expiryDate THEN FALSE
  ELSE IF coupon.usageLimit # 0 /\ coupon.usedCount >= coupon.usageLimit THEN FALSE
  ELSE TRUE

\* a formatting that drops the digits after the second decimal
toFixed2Truncating(x) == x \div 100

\* Number.prototype.toFixed(2): x is an amount in hundredths of a cent, the
\* result the nearest amount in cents
toFixed2(x) == (x + 50) \div 100

\* discountAmount and finalAmount of validateCoupon: both are computed
\* unrounded and formatted separately
CouponAmounts(totalAmount, discountPercentage) ==
  LET discountAmount == totalAmount * discountPercentage
      finalAmount == totalAmount * 100 - discountAmount
  IN  [discountAmount |-> toFixed2(discountAmount), finalAmount |-> toFixed2(finalAmount)]

FailedValidation(result) == [result |-> result, discountAmount |-> 0, finalAmount |-> 0]

\* validateCoupon with the usage cap tested before the expiry date
ValidateCouponResultLimitFirst(coupon, time, cartTotal) ==
  IF ~coupon.exists THEN FailedValidation("NotFound")
  ELSE IF ~coupon.isActive THEN FailedValidation("Inactive")
  ELSE IF coupon.usageLimit # 0 /\ coupon.usedCount >= coupon.usageLimit
       THEN FailedValidation("UsageLimitReached")
  ELSE IF coupon.expiryDate # 0 /\ time > coupon.expiryDate THEN FailedValidation("Expired")
  ELSE IF coupon.minPurchaseAmount # 0 /\ cartTotal < coupon.minPurchaseAmount
       THEN FailedValidation("BelowMinimum")
  ELSE [result |-> "ok"] @@ CouponAmounts(cartTotal, coupon.discountPercentage)

\* validateCoupon: the checks in the handler's order, then the amounts
ValidateCouponResult(coupon, time, cartTotal) ==
  IF ~coupon.exists THEN FailedValidation("NotFound")
  ELSE IF ~coupon.isActive THEN FailedValidation("Inactive")
  ELSE IF coupon.expiryDate # 0 /\ time > coupon.expiryDate THEN FailedValidation("Expired")
  ELSE IF coupon.usageLimit # 0 /\ coupon.usedCount >= coupon.usageLimit
       THEN FailedValidation("UsageLimitReached")
  ELSE IF coupon.minPurchaseAmount # 0 /\ cartTotal < coupon.minPurchaseAmount
       THEN FailedValidation("BelowMinimum")
  ELSE [result |-> "ok"] @@ CouponAmounts(cartTotal, coupon.discountPercentage)

\* a validateCoupon that counts a successful validation as a use
validateCouponCounting(code, cartTotal) ==
  /\ couponRes' = ValidateCouponResult(FindCoupon(coupons, code), now, cartTotal)
  /\ coupons' = IF couponRes'.result = "ok"
                THEN [coupons EXCEPT ![toUpperCase(code)].usedCount = @ + 1]
                ELSE coupons
  /\ UNCHANGED <<products, carts, orders, initialStock, anyFailed, trip, req,
                 cartVars, socketVars, adm, now, orderRes, adds, lateVars>>

\* validateCoupon(code, cartTotal): cartTotal is parseFloat(cartTotal) || 0,
\* which the validator keeps at 0 or more
validateCoupon(code, cartTotal) ==
  /\ couponRes' = ValidateCouponResult(FindCoupon(coupons, code), now, cartTotal)
  /\ UNCHANGED <<products, carts, orders, initialStock, anyFailed, trip, req,
                 cartVars, socketVars, adm, coupons, now, orderRes, adds, lateVars>>

\* createCoupon: refused when the code is taken
createCoupon(code, body) ==
  /\ toUpperCase(code) \in StoredCodes
  /\ coupons' = IF FindCoupon(coupons, code).exists THEN coupons
                ELSE [coupons EXCEPT ![toUpperCase(code)] =
                        [exists |-> TRUE, discountPercentage |-> body.discountPercentage,
                         isActive |-> body.isActive, expiryDate |-> body.expiryDate,
                         usageLimit |-> body.usageLimit, usedCount |-> 0,
                         minPurchaseAmount |-> body.minPurchaseAmount]]
  /\ UNCHANGED <<products, carts, orders, initialStock, anyFailed, trip, req,
                 cartVars, socketVars, adm, now, couponRes, orderRes, adds, lateVars>>

\* updateCoupon: findByIdAndUpdate with the request body, one field here
updateCoupon(c, field, value) ==
  /\ coupons' = IF coupons[c].exists THEN [coupons EXCEPT ![c][field] = value] ELSE coupons
  /\ UNCHANGED <<products, carts, orders, initialStock, anyFailed, trip, req,
                 cartVars, socketVars, adm, now, couponRes, orderRes, adds, lateVars>>

\* deleteCoupon
deleteCoupon(c) ==
  /\ coupons' = [coupons EXCEPT ![c] = NoCoupon]
  /\ UNCHANGED <<products, carts, orders, initialStock, anyFailed, trip, req,
                 cartVars, socketVars, adm, now, couponRes, orderRes, adds, lateVars>>

\* time passes between two requests
tick ==
  /\ now < MaxTime
  /\ now' = now + 1
  /\ UNCHANGED <<products, carts, orders, initialStock, anyFailed, trip, req,
                 cartVars, socketVars, adm, coupons, couponRes, orderRes, adds, lateVars>>

CodeInputs == {"SAVE10", "save10", "NOPE"}
CartTotalInputs == {0, 33, 5000, 20000}
CouponInputs ==
  [discountPercentage : {10}, isActive : {TRUE}, expiryDate : {0, 1},
   usageLimit : {0, 1}, minPurchaseAmount : {0, 10000}]
CouponUpdates == {<<"isActive", FALSE>>, <<"isActive", TRUE>>, <<"usedCount", 1>>}

CouponInit == Start([p \in Product |-> 1], User)

CouponNext ==
  \/ \E code \in {"SAVE10", "save10"}, body \in CouponInputs : createCoupon(code, body)
  \/ \E c \in StoredCodes, u \in CouponUpdates : updateCoupon(c, u[1], u[2])
  \/ \E c \in StoredCodes : deleteCoupon(c)
  \/ \E code \in CodeInputs, cartTotal \in CartTotalInputs : validateCoupon(code, cartTotal)
  \/ tick

CouponSpec == CouponInit /\ [][CouponNext]_vars

\* ------------------------------------------------------------ order access
\* req.user as the protect middleware sets it: the account of the request's
\* token.  The customers are the buyers, the administrator has no orders.
Principal ==
  {[id |-> u, role |-> "user"] : u \in Buyer} \cup {[id |-> NumBuyers + 1, role |-> "admin"]}

\* an ownership test that wants the owner to be an administrator as well
MayReadOwnerAndAdmin(order, user) == order.user = user.id /\ user.role = "admin"

\* getOrder's test: the user owns the order or is admin
MayRead(order, user) == order.user = user.id \/ user.role = "admin"

\* getOrder, whole handler
getOrder(user, o) ==
  /\ orderRes' =
       IF o > Len(orders) THEN [principal |-> user, result |-> "NotFound", order |-> NoOrder]
       ELSE IF ~MayRead(orders[o], user)
         THEN [principal |-> user, result |-> "Forbidden", order |-> NoOrder]
       ELSE [principal |-> user, result |-> "ok", order |-> orders[o]]
  /\ UNCHANGED <<products, carts, orders, initialStock, anyFailed, trip, req,
                 cartVars, socketVars, adm, couponVars, adds, lateVars>>

\* authorize(role): the middleware lets the request through for that role only
authorize(role, user) == user.role = role

\* PUT /:id/status: protect, authorize("admin"), then updateOrderStatus
putStatus(user, o, status, paymentStatus, expectedDeliveryDate, note) ==
  IF authorize("admin", user)
    THEN updateOrderStatus(o, status, paymentStatus, expectedDeliveryDate, note)
    ELSE /\ orderRes' = [principal |-> user, result |-> "AdminRequired", order |-> NoOrder]
         /\ UNCHANGED <<products, carts, orders, initialStock, anyFailed, trip, req,
                        cartVars, socketVars, adm, couponVars, adds, lateVars>>

AccessInit == Start([p \in Product |-> MaxStock], Buyer)

AccessNext ==
  \/ \E u \in Buyer : addToCart(u, toString(1), 1)
  \/ \E u \in Buyer, n \in OrderNumber : createOrder(u, n)
  \/ \E user \in Principal, o \in 1..MaxOrders : getOrder(user, o)
  \/ \E user \in Principal, o \in 1..MaxOrders, status \in {"accepted", "cancelled"} :
       putStatus(user, o, status, Absent, NoDate, Absent)

AccessSpec == AccessInit /\ [][AccessNext]_vars

\* ------------------------------------------- concurrent addToCart requests
\* Two addToCart requests of one user run concurrently, one action per stretch
\* of code between two awaits; another buyer's checkout changes the stock
\* meanwhile.  The lines of the cart are only appended to here, so the cart's
\* version (__v, incremented by every $push) is the number of its lines.
FirstBuyer == 1

\* Product.findById and the first stock check
adFindProduct(r, p, quantity) ==
  LET product == products[p] IN
  /\ adds[r].pc = "idle"
  /\ adds' = [adds EXCEPT ![r] =
       IF ~product.exists \/ ~product.isActive
         THEN [IdleAdd EXCEPT !.pc = "done", !.result = "NotFound"]
       ELSE IF product.stock < quantity
         THEN [IdleAdd EXCEPT !.pc = "done", !.result = "InsufficientStock"]
       ELSE [IdleAdd EXCEPT !.pc = "findCart", !.p = p, !.quantity = quantity,
                            !.stock = product.stock]]
  /\ UNCHANGED <<products, carts, orders, initialStock, anyFailed, trip, req,
                 cartVars, socketVars, adm, couponVars, orderRes, lateVars>>

\* the lines of the loaded cart searched and changed in memory: the request
\* goes on to save a new quantity for a line or a pushed line
AddMerge(a, items) ==
  LET itemIndex == FindIndex(items, toString(a.p)) IN
  IF itemIndex > 0
    THEN LET newQuantity == items[itemIndex].quantity + a.quantity IN
      IF a.stock < newQuantity
        THEN [a EXCEPT !.pc = "done", !.result = "InsufficientStock"]
        ELSE [a EXCEPT !.pc = "save", !.op = "set", !.index = itemIndex,
                       !.newQuantity = newQuantity, !.version = Len(items)]
    ELSE [a EXCEPT !.pc = "save", !.op = "push", !.version = Len(items)]

\* Cart.findOne({ user }); without a cart the request goes on to create one
adFindCart(r) ==
  /\ adds[r].pc = "findCart"
  /\ adds' = [adds EXCEPT ![r] =
       IF carts[FirstBuyer].exists THEN AddMerge(adds[r], carts[FirstBuyer].items)
       ELSE [adds[r] EXCEPT !.pc = "create"]]
  /\ UNCHANGED <<products, carts, orders, initialStock, anyFailed, trip, req,
                 cartVars, socketVars, adm, couponVars, orderRes, lateVars>>

\* Cart.create({ user, items: [] }): the unique index on user refuses a second cart
adCreate(r) ==
  /\ adds[r].pc = "create"
  /\ IF carts[FirstBuyer].exists
       THEN /\ adds' = [adds EXCEPT ![r].pc = "done", ![r].result = "error"]
            /\ UNCHANGED carts
       ELSE /\ carts' = [carts EXCEPT ![FirstBuyer] = [exists |-> TRUE, items |-> <<>>]]
            /\ adds' = [adds EXCEPT ![r] = AddMerge(adds[r], <<>>)]
  /\ UNCHANGED <<products, orders, initialStock, anyFailed, trip, req,
                 cartVars, socketVars, adm, couponVars, orderRes, lateVars>>

\* cart.save(): a pushed line is a $push onto the stored lines; a changed
\* quantity is a $set of that line by position, refused (VersionError) when
\* the stored cart's version is not the loaded one
CartSave(stored, a) ==
  IF a.op = "push"
    THEN [error |-> FALSE,
          items |-> Append(stored, [product |-> a.p, quantity |-> a.quantity])]
  ELSE IF Len(stored) # a.version THEN [error |-> TRUE, items |-> stored]
  ELSE [error |-> FALSE, items |-> [stored EXCEPT ![a.index].quantity = a.newQuantity]]

\* cart.save() and the response
adSave(r) ==
  LET saved == CartSave(carts[FirstBuyer].items, adds[r]) IN
  /\ adds[r].pc = "save"
  /\ carts' = [carts EXCEPT ![FirstBuyer].items = saved.items]
  /\ adds' = [adds EXCEPT ![r].pc = "done",
                          ![r].result = IF saved.error THEN "error" ELSE "ok"]
  /\ UNCHANGED <<products, orders, initialStock, anyFailed, trip, req,
                 cartVars, socketVars, adm, couponVars, orderRes, lateVars>>

\* a whole addToCart before the concurrent requests start
adAddToCart(u, p, quantity) ==
  /\ \A r \in Request : adds[r].pc = "idle"
  /\ addToCart(u, toString(p), quantity)

AddInit == Start([p \in Product |-> FirstStock(p)], Buyer)

AddNext ==
  \/ \E u \in Buyer : adAddToCart(u, 1, 1)
  \/ \E u \in Buyer \ {FirstBuyer}, n \in OrderNumber : createOrder(u, n)
  \/ \E r \in Request : adFindProduct(r, 1, 1)
  \/ \E r \in Request : adFindCart(r)
  \/ \E r \in Request : adCreate(r)
  \/ \E r \in Request : adSave(r)

AddSpec == AddInit /\ [][AddNext]_vars

\* ------------------------------------------ concurrent requests of one user
\* getCart, addToCart and createOrder requests of the first buyer run
\* concurrently, one action per stretch of code between two awaits.  The Cart
\* collection is a sequence of documents [user, items, v]; v is the version
\* key (__v) that mongoose increments when the array is pushed to or replaced.

\* Cart.findOne({ user }): the position of the user's first cart, 0 for null
FindCart(docs, u) ==
  IF \E k \in 1..Len(docs) : docs[k].user = u
    THEN CHOOSE k \in 1..Len(docs) :
           docs[k].user = u /\ \A j \in 1..(k - 1) : docs[j].user # u
    ELSE 0

\* an insert into a collection without the unique index on user
CartCreateNoIndex(docs, u) ==
  [error |-> FALSE, docs |-> Append(docs, [user |-> u, items |-> <<>>, v |-> 0])]

\* Cart.create({ user, items: [] }): the unique index on user refuses a
\* second cart of the user (duplicate key)
CartCreate(docs, u) ==
  IF FindCart(docs, u) > 0 THEN [error |-> TRUE, docs |-> docs]
  ELSE [error |-> FALSE, docs |-> Append(docs, [user |-> u, items |-> <<>>, v |-> 0])]

\* the request is answered; its slot can take another request
Finish(job) == [IdleJob EXCEPT !.runs = job.runs + 1]

\* getCart: Cart.findOne({ user }).populate("items.product")
ocGetFind(r) ==
  /\ jobs[r].pc = "idle" /\ jobs[r].runs < MaxRuns
  /\ jobs' = [jobs EXCEPT ![r] =
       IF FindCart(cartDocs, FirstBuyer) > 0 THEN Finish(jobs[r])
       ELSE [jobs[r] EXCEPT !.pc = "getCreate"]]
  /\ UNCHANGED <<products, carts, orders, initialStock, anyFailed, trip, req,
                 cartVars, socketVars, adm, couponVars, orderRes, adds, cartDocs, server, log>>

\* getCart: Cart.create and the response
ocGetCreate(r) ==
  /\ jobs[r].pc = "getCreate"
  /\ cartDocs' = CartCreate(cartDocs, FirstBuyer).docs
  /\ jobs' = [jobs EXCEPT ![r] = Finish(jobs[r])]
  /\ UNCHANGED <<products, carts, orders, initialStock, anyFailed, trip, req,
                 cartVars, socketVars, adm, couponVars, orderRes, adds, server, log>>

\* addToCart: Product.findById and the first stock check
ocAddFindProduct(r, p, quantity) ==
  LET product == products[p] IN
  /\ jobs[r].pc = "idle" /\ jobs[r].runs < MaxRuns
  /\ jobs' = [jobs EXCEPT ![r] =
       IF ~product.exists \/ ~product.isActive \/ product.stock < quantity
         THEN Finish(jobs[r])
         ELSE [jobs[r] EXCEPT !.pc = "addFindCart", !.p = p, !.quantity = quantity,
                              !.stock = product.stock]]
  /\ UNCHANGED <<products, carts, orders, initialStock, anyFailed, trip, req,
                 cartVars, socketVars, adm, couponVars, orderRes, adds, cartDocs, server, log>>

\* addToCart: the loaded cart k searched and changed in memory
JobMerge(job, k, doc) ==
  LET itemIndex == FindIndex(doc.items, toString(job.p)) IN
  IF itemIndex > 0
    THEN LET newQuantity == doc.items[itemIndex].quantity + job.quantity IN
      IF job.stock < newQuantity THEN Finish(job)
      ELSE [job EXCEPT !.pc = "addSave", !.cart = k, !.v = doc.v, !.op = "set",
                       !.index = itemIndex, !.newQuantity = newQuantity]
    ELSE [job EXCEPT !.pc = "addSave", !.cart = k, !.v = doc.v, !.op = "push"]

\* addToCart: Cart.findOne({ user })
ocAddFindCart(r) ==
  LET k == FindCart(cartDocs, FirstBuyer) IN
  /\ jobs[r].pc = "addFindCart"
  /\ jobs' = [jobs EXCEPT ![r] =
       IF k > 0 THEN JobMerge(jobs[r], k, cartDocs[k])
       ELSE [jobs[r] EXCEPT !.pc = "addCreate"]]
  /\ UNCHANGED <<products, carts, orders, initialStock, anyFailed, trip, req,
                 cartVars, socketVars, adm, couponVars, orderRes, adds, cartDocs, server, log>>

\* addToCart: Cart.create, then the new line pushed in memory
ocAddCreate(r) ==
  LET created == CartCreate(cartDocs, FirstBuyer) IN
  /\ jobs[r].pc = "addCreate"
  /\ cartDocs' = created.docs
  /\ jobs' = [jobs EXCEPT ![r] =
       IF created.error THEN Finish(jobs[r])
       ELSE JobMerge(jobs[r], Len(created.docs), created.docs[Len(created.docs)])]
  /\ UNCHANGED <<products, carts, orders, initialStock, anyFailed, trip, req,
                 cartVars, socketVars, adm, couponVars, orderRes, adds, server, log>>

\* cart.save() of one changed cart on the stored document: a pushed line is
\* $push'ed and increments the version; a changed quantity is $set by its
\* position and a replaced array is $set whole, both only on the version that
\* was loaded (VersionError otherwise), the replacement incrementing it
CartDocSave(stored, job) ==
  IF job.op = "push"
    THEN [stored EXCEPT !.items = Append(@, [product |-> job.p, quantity |-> job.quantity]),
                        !.v = @ + 1]
  ELSE IF stored.v # job.v THEN stored
  ELSE IF job.op = "set" THEN [stored EXCEPT !.items[job.index].quantity = job.newQuantity]
  ELSE [stored EXCEPT !.items = <<>>, !.v = @ + 1]

\* addToCart: cart.save() and the response
ocAddSave(r) ==
  /\ jobs[r].pc = "addSave"
  /\ cartDocs' = [cartDocs EXCEPT ![jobs[r].cart] = CartDocSave(@, jobs[r])]
  /\ jobs' = [jobs EXCEPT ![r] = Finish(jobs[r])]
  /\ UNCHANGED <<products, carts, orders, initialStock, anyFailed, trip, req,
                 cartVars, socketVars, adm, couponVars, orderRes, adds, server, log>>

\* createOrder: Cart.findOne({ user }).populate("items.product") and the
\* empty-cart check
ocOrderLoad(r) ==
  LET k == FindCart(cartDocs, FirstBuyer) IN
  /\ jobs[r].pc = "idle" /\ jobs[r].runs < MaxRuns
  /\ jobs' = [jobs EXCEPT ![r] =
       IF k = 0 THEN Finish(jobs[r])
       ELSE IF Len(cartDocs[k].items) = 0 THEN Finish(jobs[r])
       ELSE [jobs[r] EXCEPT !.pc = "orderLine", !.cart = k, !.v = cartDocs[k].v,
                            !.items = cartDocs[k].items,
                            !.docs = Populate(cartDocs[k].items, products), !.i = 1]]
  /\ UNCHANGED <<products, carts, orders, initialStock, anyFailed, trip, req,
                 cartVars, socketVars, adm, couponVars, orderRes, adds, cartDocs, server, log>>

\* createOrder: one pass of the loop over the loaded lines
ocOrderLine(r) ==
  /\ jobs[r].pc = "orderLine"
  /\ jobs[r].i <= Len(jobs[r].items)
  /\ LET line == CreateOrderLine(jobs[r].items[jobs[r].i], jobs[r].docs[jobs[r].i], products) IN
     /\ products' = line.products
     /\ jobs' = [jobs EXCEPT ![r] =
          IF line.error # "none" THEN Finish(jobs[r]) ELSE [jobs[r] EXCEPT !.i = @ + 1]]
  /\ UNCHANGED <<carts, orders, initialStock, anyFailed, trip, req,
                 cartVars, socketVars, adm, couponVars, orderRes, adds, cartDocs, server, log>>

\* createOrder: Order.create
ocOrderCreate(r, n) ==
  /\ jobs[r].pc = "orderLine"
  /\ jobs[r].i > Len(jobs[r].items)
  /\ Len(orders) < MaxOrders
  /\ IF n \in OrderNumbersInUse
       THEN /\ jobs' = [jobs EXCEPT ![r] = Finish(jobs[r])]
            /\ UNCHANGED orders
       ELSE /\ orders' = Append(orders, NewOrder(FirstBuyer, jobs[r].items, n))
            /\ jobs' = [jobs EXCEPT ![r].pc = "orderClear", ![r].op = "clear"]
  /\ UNCHANGED <<products, carts, initialStock, anyFailed, trip, req,
                 cartVars, socketVars, adm, couponVars, orderRes, adds, cartDocs, server, log>>

\* createOrder: cart.items = []; cart.save() and the response
ocOrderClear(r) ==
  /\ jobs[r].pc = "orderClear"
  /\ cartDocs' = [cartDocs EXCEPT ![jobs[r].cart] = CartDocSave(@, jobs[r])]
  /\ jobs' = [jobs EXCEPT ![r] = Finish(jobs[r])]
  /\ UNCHANGED <<products, carts, orders, initialStock, anyFailed, trip, req,
                 cartVars, socketVars, adm, couponVars, orderRes, adds, server, log>>

OneCartInit == Start([p \in Product |-> FirstStock(p)], Buyer)

OneCartNext ==
  \/ \E r \in Request : ocGetFind(r)
  \/ \E r \in Request : ocGetCreate(r)
  \/ \E r \in Request : ocAddFindProduct(r, 1, 1)
  \/ \E r \in Request : ocAddFindCart(r)
  \/ \E r \in Request : ocAddCreate(r)
  \/ \E r \in Request : ocAddSave(r)
  \/ \E r \in Request : ocOrderLoad(r)
  \/ \E r \in Request : ocOrderLine(r)
  \/ \E r \in Request, n \in OrderNumber : ocOrderCreate(r, n)
  \/ \E r \in Request : ocOrderClear(r)

OneCartSpec == OneCartInit /\ [][OneCartNext]_vars

\* ----------------------------------------------------- server and database
\* mongoose.connection.readyState: 0 disconnected, 1 connected, 2 connecting,
\* 3 disconnecting
ReadyStates == {0, 1, 2, 3}

\* connectDB: returns at once when connected, else awaits mongoose.connect and
\* throws when it fails; up tells whether the database can be reached
connectDB(readyState, up) ==
  IF readyState = 1 THEN [ok |-> TRUE, readyState |-> 1]
  ELSE IF up THEN [ok |-> TRUE, readyState |-> 1]
  ELSE [ok |-> FALSE, readyState |-> 0]

\* checkDBConnection: next() when connected or after a reconnect from state 0
\* or 2 that succeeds, 503 otherwise
checkDBConnection(readyState, up) ==
  IF readyState = 1 THEN [next |-> TRUE, reconnected |-> FALSE, readyState |-> readyState]
  ELSE IF readyState = 0 \/ readyState = 2
    THEN LET c == connectDB(readyState, up) IN
         [next |-> c.ok, reconnected |-> c.ok, readyState |-> c.readyState]
  ELSE [next |-> FALSE, reconnected |-> FALSE, readyState |-> readyState]

\* what app.js mounts in front of the routers of /api
Mounted == {"cors", "express.json", "express.urlencoded"}

\* startServer: app.listen after connectDB returned or threw
startServer(up) ==
  /\ ~server.listening
  /\ server' = [listening |-> TRUE, readyState |-> connectDB(server.readyState, up).readyState]
  /\ UNCHANGED <<products, carts, orders, initialStock, anyFailed, trip, req,
                 cartVars, socketVars, adm, couponVars, orderRes, adds, cartDocs, jobs, log>>

\* the connection is lost, closes, or is re-established by the driver
connectionEvent(state) ==
  /\ server.listening
  /\ state # server.readyState
  /\ server' = [server EXCEPT !.readyState = state]
  /\ UNCHANGED <<products, carts, orders, initialStock, anyFailed, trip, req,
                 cartVars, socketVars, adm, couponVars, orderRes, adds, cartDocs, jobs, log>>

\* a request to a route under /api passes what is mounted and is answered by
\* the route's handler or with 503
apiRequest(up) ==
  /\ server.listening
  /\ Len(log) < MaxRequests
  /\ IF "checkDBConnection" \in Mounted
       THEN LET c == checkDBConnection(server.readyState, up) IN
            /\ server' = [server EXCEPT !.readyState = c.readyState]
            /\ log' = Append(log, [readyState |-> server.readyState,
                                   reconnected |-> c.reconnected,
                                   answer |-> IF c.next THEN "handler" ELSE "503"])
       ELSE /\ log' = Append(log, [readyState |-> server.readyState,
                                   reconnected |-> FALSE, answer |-> "handler"])
            /\ UNCHANGED server
  /\ UNCHANGED <<products, carts, orders, initialStock, anyFailed, trip, req,
                 cartVars, socketVars, adm, couponVars, orderRes, adds, cartDocs, jobs>>

ServerInit == Start([p \in Product |-> 1], User)

ServerNext ==
  \/ \E up \in BOOLEAN : startServer(up)
  \/ \E state \in ReadyStates : connectionEvent(state)
  \/ \E up \in BOOLEAN : apiRequest(up)

ServerSpec == ServerInit /\ [][ServerNext]_vars

\* =================================================================== claims
RECURSIVE SumOrders(_, _, _)
\* total quantity of product p over the orders from the k-th on that satisfy
\* counted (a set of statuses)
SumOrders(counted, p, k) ==
  IF k > Len(orders) THEN 0
  ELSE (IF orders[k].status \in counted THEN SumQty(orders[k].items, p) ELSE 0)
       + SumOrders(counted, p, k + 1)

\* quantity of p in all the orders that were created
Ordered(p) == SumOrders(Statuses, p, 1)
\* quantity of p in the orders that are not cancelled
Reserved(p) == SumOrders(Statuses \ {"cancelled"}, p, 1)

\* order o went from status s to status t at some point
Went(o, s, t) ==
  \E k \in 1..(Len(orders[o].statusTimeline) - 1) :
    /\ orders[o].statusTimeline[k].status = s
    /\ orders[o].statusTimeline[k + 1].status = t

\* C1: after any sequence of createOrder and updateOrderStatus calls, the
\* persisted stock of every product is >= 0.
C1_StockNonNegative == \A p \in Product : products[p].stock >= 0

\* an order was placed, cancelled and reactivated, and a product is sold out
C1_Witness ==
  \E o \in 1..Len(orders) :
    /\ \E s \in Statuses : Went(o, s, "cancelled")
    /\ orders[o].status # "cancelled"
    /\ \E p \in Product : SumQty(orders[o].items, p) > 0 /\ products[p].stock = 0

\* C2: concurrent checkouts never oversell: the quantity of a product in the
\* created orders never exceeds its initial stock, and once every checkout
\* has completed the stock is the initial stock minus that quantity.
C2_NoOversell ==
  \A p \in Product :
    /\ Ordered(p) <= initialStock[p]
    /\ (\A u \in DOMAIN req : req[u].pc \in {"idle", "done"})
         => products[p].stock = initialStock[p] - Ordered(p)

\* C3: a createOrder call that fails (no order is created) leaves every
\* product's stock and the cart as they were.
C3_AllOrNothing ==
  [][\A u \in User, n \in OrderNumber :
       (createOrder(u, n) /\ Len(orders') = Len(orders))
         => (products' = products /\ carts' = carts)]_vars

\* every line of u's cart can be reserved
CartOrderable(u) ==
  /\ carts[u].exists
  /\ Len(carts[u].items) >= 1
  /\ \A i \in 1..Len(carts[u].items) :
       LET product == products[carts[u].items[i].product] IN
       product.exists /\ product.isActive /\ product.stock >= carts[u].items[i].quantity

\* what a successful createOrder of user u leaves behind
CreatedFromCart(u) ==
  LET cart == carts[u]
      order == orders'[Len(orders')]
  IN
  /\ \A p \in Product : products'[p].stock = products[p].stock - SumQty(cart.items, p)
  /\ SubSeq(orders', 1, Len(orders)) = orders
  /\ order.user = u
  /\ order.status = "placed"
  /\ order.paymentStatus = "pending"
  /\ Len(order.items) = Len(cart.items)
  /\ \A i \in 1..Len(cart.items) :
       /\ order.items[i].product = cart.items[i].product
       /\ order.items[i].quantity = cart.items[i].quantity
  /\ Len(order.statusTimeline) = 1
  /\ order.statusTimeline[1].status = "placed"
  /\ carts'[u].exists
  /\ carts'[u].items = <<>>

\* C4 as stated: createOrder succeeds exactly when the cart is non-empty and
\* every line's product exists, is active and has enough stock, and a
\* success has the stated effects.
C4_SucceedsIffOrderable ==
  [][\A u \in User, n \in OrderNumber :
       createOrder(u, n) =>
         /\ (Len(orders') = Len(orders) + 1) <=> CartOrderable(u)
         /\ (Len(orders') = Len(orders) + 1) => CreatedFromCart(u)]_vars

\* C4: createOrder succeeds exactly when the cart is non-empty, every line's
\* product exists, is active and has stock >= the line quantity, and the
\* order number drawn is not the number of an existing order; on success every
\* product's stock is down by the line quantity, one order is appended with
\* status placed, paymentStatus pending, the cart lines in cart order and a
\* single placed timeline entry, and the cart record remains, with no lines.
C4_SucceedsIffOrderableAndFreshNumber ==
  [][\A u \in User, n \in OrderNumber :
       createOrder(u, n) =>
         /\ (Len(orders') = Len(orders) + 1)
              <=> (CartOrderable(u) /\ n \notin OrderNumbersInUse)
         /\ (Len(orders') = Len(orders) + 1) => CreatedFromCart(u)]_vars

\* a two-line cart was checked out: both stocks are down, the cart is empty
C4_Witness ==
  \E o \in 1..Len(orders) :
    /\ Len(orders[o].items) = 2
    /\ orders[o].status = "placed"
    /\ carts[orders[o].user].exists /\ carts[orders[o].user].items = <<>>
    /\ \A p \in Product :
         products[p].exists /\ products[p].stock = initialStock[p] - Ordered(p)
    /\ \E i \in 1..2 : orders[o].items[i].quantity = 2

Cancellable == {"placed", "accepted", "packing", "sent_to_delivery"}

\* C5: an updateOrderStatus call that cancels an order that is placed,
\* accepted, packing or sent_to_delivery sets the status to cancelled and
\* raises every product's stock by exactly its quantity in the order (by
\* nothing for a product that is not in the order).
C5_CancelRestoresStock ==
  [][\A o \in 1..Len(orders), opt \in OptionInputs :
       (/\ orders[o].status \in Cancellable
        /\ updateOrderStatus(o, "cancelled", opt.paymentStatus,
                             opt.expectedDeliveryDate, opt.note))
         => /\ orders'[o].status = "cancelled"
            /\ \A p \in Product :
                 products'[p].stock = products[p].stock + SumQty(orders[o].items, p)]_vars

\* a two-line order holding two units of a product was cancelled while packing
C5_Witness ==
  \E o \in 1..Len(orders) :
    /\ Went(o, "packing", "cancelled")
    /\ orders[o].status = "cancelled"
    /\ Len(orders[o].items) = 2
    /\ \E i \in 1..2 : orders[o].items[i].quantity = 2
    /\ \A p \in Product : products[p].stock = initialStock[p]

\* C6: cancelling an order in any non-cancelled status and then reactivating
\* it, with no change of stock in between, leaves every product's stock as it
\* was before the cancellation.
C6_RoundTrip ==
  [][\A o \in 1..Len(orders), status \in Statuses \ {"cancelled"}, opt \in OptionInputs :
       (/\ trip.phase = "cancelled"
        /\ trip.order = o
        /\ orders[o].status = "cancelled"
        /\ updateOrderStatus(o, status, opt.paymentStatus, opt.expectedDeliveryDate, opt.note)
        /\ orders'[o].status = status)
         => StockOf(products') = trip.stock]_vars

\* stock plus the quantity held by the non-cancelled orders is the initial stock
NetOfReservations ==
  \A p \in Product : products[p].stock + Reserved(p) = initialStock[p]

DeliveredCancelled == \E o \in 1..Len(orders) : Went(o, "delivered", "cancelled")

C8_FailedReactivationChangesNothing ==
  [][\A o \in 1..Len(orders), status \in Statuses \ {"cancelled"}, opt \in OptionInputs :
       (/\ orders[o].status = "cancelled"
        /\ \E i \in 1..Len(orders[o].items) :
             products[orders[o].items[i].product].stock < orders[o].items[i].quantity
        /\ updateOrderStatus(o, status, opt.paymentStatus, opt.expectedDeliveryDate, opt.note))
         => (products' = products /\ orders' = orders)]_vars

\* C9: a reactivation of a cancelled order for which every item's product has
\* stock >= the item's quantity succeeds and lowers every product's stock by
\* exactly its quantity in the order.
C9_ReactivationReservesStock ==
  [][\A o \in 1..Len(orders), status \in Statuses \ {"cancelled"}, opt \in OptionInputs :
       (/\ orders[o].status = "cancelled"
        /\ \A i \in 1..Len(orders[o].items) :
             products[orders[o].items[i].product].stock >= orders[o].items[i].quantity
        /\ updateOrderStatus(o, status, opt.paymentStatus, opt.expectedDeliveryDate, opt.note))
         => /\ orders'[o].status = status
            /\ \A p \in Product :
                 products'[p].stock = products[p].stock - SumQty(orders[o].items, p)]_vars

\* a cancelled two-line order was reactivated as accepted; its stock is held again
C9_Witness ==
  /\ Len(orders) = 1
  /\ Went(1, "cancelled", "accepted") /\ orders[1].status = "accepted"
  /\ Len(orders[1].items) = 2
  /\ \A p \in Product : products[p].stock = initialStock[p] - SumQty(orders[1].items, p)

\* C10: an updateOrderStatus call with no status, or with the order's current
\* status, changes no stock, keeps the status and adds no timeline entry.
C10_SameStatusIsNoOp ==
  [][\A o \in 1..Len(orders), opt \in OptionInputs :
       \A status \in {Absent, orders[o].status} :
         updateOrderStatus(o, status, opt.paymentStatus, opt.expectedDeliveryDate, opt.note)
           => /\ products' = products
              /\ orders'[o].status = orders[o].status
              /\ Len(orders'[o].statusTimeline) = Len(orders[o].statusTimeline)
              /\ \A k \in 1..Len(orders[o].statusTimeline) :
                   orders'[o].statusTimeline[k].status = orders[o].statusTimeline[k].status]_vars

\* an order took a call that changed no status: it carries the payment status
\* and the delivery date of that call and still its single timeline entry
C10_Witness ==
  \E o \in 1..Len(orders) :
    /\ orders[o].status = "placed"
    /\ Len(orders[o].statusTimeline) = 1
    /\ orders[o].paymentStatus = "paid"
    /\ orders[o].expectedDeliveryDate = SomeDate
    /\ products[1].stock = initialStock[1] - Reserved(1)

\* the entry a status change of order o to status appended, with note as its note
Appended(o, status, note) ==
  LET n == Len(orders[o].statusTimeline) IN
  /\ Len(orders'[o].statusTimeline) = n + 1
  /\ orders'[o].statusTimeline[n + 1] = [status |-> status, note |-> note]

\* C11 as stated: a successful updateOrderStatus call with a new status
\* appends one entry, at the end, with the new status and the supplied note
\* or else the generated message.
C11_AppendsEntryWithNote ==
  [][\A o \in 1..Len(orders), status \in Statuses, opt \in NoteInputs :
       (/\ status # orders[o].status
        /\ updateOrderStatus(o, status, opt.paymentStatus, opt.expectedDeliveryDate, opt.note)
        /\ orders'[o].status = status)
         => Appended(o, status, IF opt.note # Absent THEN opt.note
                                ELSE GeneratedNote(orders[o].status, status))]_vars

\* C11: a successful updateOrderStatus call with a new status appends exactly
\* one entry, at the end, with the new status; its note is the delivery
\* message when the call sends a delivery date and the new status is
\* sent_to_delivery, and otherwise the supplied note or else the generated
\* message.
C11_AppendsEntryWithNoteOrDeliveryNote ==
  [][\A o \in 1..Len(orders), status \in Statuses, opt \in NoteInputs :
       (/\ status # orders[o].status
        /\ updateOrderStatus(o, status, opt.paymentStatus, opt.expectedDeliveryDate, opt.note)
        /\ orders'[o].status = status)
         => Appended(o, status,
                     IF opt.expectedDeliveryDate # NoDate /\ status = "sent_to_delivery"
                       THEN DeliveryNote
                     ELSE IF opt.note # Absent THEN opt.note
                     ELSE GeneratedNote(orders[o].status, status))]_vars

\* an order took a change with a note, one without and one with a delivery date
C11_Witness ==
  \E o \in 1..Len(orders) :
    orders[o].statusTimeline =
      <<[status |-> "placed", note |-> PlacedNote],
        [status |-> "accepted", note |-> CustomNote],
        [status |-> "packing", note |-> GeneratedNote("accepted", "packing")],
        [status |-> "sent_to_delivery", note |-> DeliveryNote]>>

\* every persisted entry of order o is still where it was, with the same status
KeepsEntries(o) ==
  /\ Len(orders'[o].statusTimeline) >= Len(orders[o].statusTimeline)
  /\ \A k \in 1..Len(orders[o].statusTimeline) :
       orders'[o].statusTimeline[k].status = orders[o].statusTimeline[k].status

\* C12 as stated: the timeline of an order before any step is a prefix of its
\* timeline after the step.
C12_AppendOnly ==
  [][\A o \in 1..Len(orders) :
       /\ Len(orders') >= o
       /\ KeepsEntries(o)
       /\ \A k \in 1..Len(orders[o].statusTimeline) :
            orders'[o].statusTimeline[k].note = orders[o].statusTimeline[k].note]_vars

\* C12: no step removes or moves a timeline entry or changes its status, and
\* every entry keeps its note, except that the last persisted entry, when it
\* is a sent_to_delivery entry of an order that is sent_to_delivery, may have
\* its note overwritten with the delivery message.
C12_AppendOnlyButDeliveryNote ==
  [][\A o \in 1..Len(orders) :
       /\ Len(orders') >= o
       /\ KeepsEntries(o)
       /\ \A k \in 1..Len(orders[o].statusTimeline) :
            \/ orders'[o].statusTimeline[k].note = orders[o].statusTimeline[k].note
            \/ /\ k = Len(orders[o].statusTimeline)
               /\ orders[o].status = "sent_to_delivery"
               /\ orders[o].statusTimeline[k].status = "sent_to_delivery"
               /\ orders'[o].statusTimeline[k].note = DeliveryNote]_vars

\* an order with a noted entry went out for delivery and was then cancelled:
\* the earlier entries are below the new one, the delivery message included
C12_Witness ==
  \E o \in 1..Len(orders) :
    orders[o].statusTimeline =
      <<[status |-> "placed", note |-> PlacedNote],
        [status |-> "sent_to_delivery", note |-> DeliveryNote],
        [status |-> "cancelled", note |-> CustomNote]>>

\* the administrators whose call changed the status of order o and was saved
Pushers(o) ==
  {a \in Admin : /\ adm[a].pc = "done"
                 /\ adm[a].o = o
                 /\ StatusChanges(adm[a].order.status, adm[a].status)}

\* C13: whatever the interleaving of the status-changing updateOrderStatus
\* calls on an order, its persisted timeline holds the entry of every saved
\* call, next to the initial one, and its status is that of one of the calls.
C13_EveryAppendPersists ==
  \A o \in 1..Len(orders) :
    /\ Len(orders[o].statusTimeline) = 1 + Cardinality(Pushers(o))
    /\ \A a \in Pushers(o) :
         \E k \in 2..Len(orders[o].statusTimeline) :
           orders[o].statusTimeline[k].status = adm[a].status
    /\ Pushers(o) # {} => \E a \in Pushers(o) : orders[o].status = adm[a].status

\* two administrators loaded the same one-entry order, sent different
\* statuses, and both saved: three entries
C13_Witness ==
  /\ Cardinality(Pushers(1)) = 2
  /\ \A a \in Pushers(1) : Len(adm[a].order.statusTimeline) = 1
  /\ \E a, b \in Pushers(1) : adm[a].status # adm[b].status
  /\ Len(orders[1].statusTimeline) = 3

\* C14: a createOrder call that creates an order emits exactly one order:new
\* event to the admin room, and a failed one emits nothing.
C14_CreateEmitsOrderNew ==
  [][\A u \in User, n \in OrderNumber :
       createOrder(u, n) =>
         IF Len(orders') = Len(orders) + 1
           THEN emitted' = Append(emitted, "order:new")
           ELSE emitted' = emitted]_vars

\* C15: an updateOrderStatus call that saves the order emits exactly one
\* order:status-updated event to the admin room, whether or not the status
\* changed, and a call that fails emits nothing.
C15_UpdateEmitsStatusUpdated ==
  [][\A o \in 1..MaxOrders, status \in StatusInputs, opt \in OptionInputs :
       updateOrderStatus(o, status, opt.paymentStatus, opt.expectedDeliveryDate, opt.note) =>
         IF o <= Len(orders) /\ Reconcile(orders[o], products, status).error = "none"
           THEN emitted' = Append(emitted, "order:status-updated")
           ELSE emitted' = emitted]_vars

\* C16: the admin room holds only connected sockets of users with role
\* admin, and a connected socket of any other user has received neither
\* order:new nor order:status-updated.
C16_AdminRoomOnlyAdmins ==
  \A s \in Session :
    /\ "admin" \in sockets[s].rooms =>
         (sockets[s].connected /\ Accounts[sockets[s].user].role = "admin")
    /\ (sockets[s].connected /\ Accounts[sockets[s].user].role # "admin") =>
         inbox[s] \cap EventKinds = {}

\* both kinds of event went out while an administrator and a customer were
\* connected: the administrator has them, the customer has nothing
C16_Witness ==
  \E s, t \in Session :
    /\ sockets[s].connected /\ sockets[s].user = "admin" /\ EventKinds \subseteq inbox[s]
    /\ sockets[t].connected /\ sockets[t].user = "customer" /\ inbox[t] = {}
    /\ Len(emitted) = 2

C18_SetQuantityRevalidates ==
  [][\A u \in Buyer, itemIndex \in IndexInputs, q \in QuantityInputs :
       updateCartItem(u, itemIndex, q) =>
         LET cart == carts[u]
             ok == UpdateCartItemResult(cart, products, itemIndex, q).result = "ok"
         IN
         /\ ok => /\ q >= 1
                  /\ cart.exists
                  /\ itemIndex + 1 \in 1..Len(cart.items)
                  /\ LET product == products[cart.items[itemIndex + 1].product] IN
                     product.exists /\ product.isActive /\ q <= product.stock
                  /\ Len(carts'[u].items) = Len(cart.items)
                  /\ \A k \in 1..Len(cart.items) :
                       /\ carts'[u].items[k].product = cart.items[k].product
                       /\ carts'[u].items[k].quantity =
                            IF k = itemIndex + 1 THEN q ELSE cart.items[k].quantity
         /\ ~ok => carts'[u] = carts[u]
         /\ \A v \in Buyer \ {u} : carts'[v] = carts[v]]_vars

\* a customer whose cart showed two units of the first product and one of the
\* second now has one of each, the first line first, and the other customer's
\* order has left one unit of the first product
C18_Witness ==
  \E u \in Buyer :
    /\ total = 3000
    /\ carts[u].items = <<[product |-> 1, quantity |-> 1], [product |-> 2, quantity |-> 1]>>
    /\ products[1].stock = 1
    /\ \E o \in 1..Len(orders) : orders[o].user # u /\ SumQty(orders[o].items, 1) = 1

\* a step of one of the five cart handlers
CartOperation ==
  \/ \E u \in Buyer : getCart(u)
  \/ \E u \in Buyer, p \in Product, q \in Quantity : addToCart(u, toString(p), q)
  \/ \E u \in Buyer, i \in IndexInputs, q \in QuantityInputs : updateCartItem(u, i, q)
  \/ \E u \in Buyer, i \in IndexInputs : removeFromCart(u, i)
  \/ \E u \in Buyer : clearCart(u)

\* C19: no cart handler (getCart, addToCart, updateCartItem, removeFromCart,
\* clearCart), whether it succeeds or fails, changes the stock of a product.
C19_CartKeepsStock == [][CartOperation => products' = products]_vars

\* the two carts together hold more units of the first product than there
\* are, a line was removed from one of them, and the stock is still whole
C19_Witness ==
  /\ SumQty(carts[1].items, 1) + SumQty(carts[2].items, 1) > products[1].stock
  /\ carts[2].items = <<[product |-> 1, quantity |-> 2]>>
  /\ total = 3000
  /\ orders = <<>>
  /\ \A p \in Product : products[p].stock = initialStock[p]

\* the sum over the lines of quantity x (price x (1 - discount/100) if the
\* discount is > 0, else price), in hundredths, at the current prices
RECURSIVE DiscountedSum(_, _)
DiscountedSum(items, i) ==
  IF i > Len(items) THEN 0
  ELSE LET product == prices[items[i].product] IN
       items[i].quantity * (IF product.discount > 0
                              THEN product.price * (100 - product.discount)
                              ELSE product.price * 100)
       + DiscountedSum(items, i + 1)

\* C20: the total getCart computes is the sum over the cart's lines of
\* quantity x the discounted price when there is a discount, else the price,
\* for every discount from 0 to 100 and every price >= 0.
C20_TotalIsDiscountedSum ==
  [][\A u \in User : getCart(u) => total' = DiscountedSum(carts[u].items, 1)]_vars

\* the timeline of order o grew by one entry, of the given status, and the
\* entries it had are as they were
OneMoreEntry(o, status) ==
  LET n == Len(orders[o].statusTimeline) IN
  /\ Len(orders'[o].statusTimeline) = n + 1
  /\ orders'[o].statusTimeline[n + 1].status = status
  /\ \A k \in 1..n : orders'[o].statusTimeline[k] = orders[o].statusTimeline[k]

\* C28: an updateOrderStatus call that cancels a delivered order changes no
\* product's stock; the order becomes cancelled, with one more timeline entry
\* and the same items.
C28_CancelDeliveredKeepsStock ==
  [][\A o \in 1..Len(orders), opt \in OptionInputs :
       (/\ orders[o].status = "delivered"
        /\ updateOrderStatus(o, "cancelled", opt.paymentStatus,
                             opt.expectedDeliveryDate, opt.note))
         => /\ products' = products
            /\ orders'[o].status = "cancelled"
            /\ orders'[o].items = orders[o].items
            /\ OneMoreEntry(o, "cancelled")]_vars

\* the only order was delivered and then cancelled: its units are still out
\* of the stock
C28_Witness ==
  /\ Len(orders) = 1
  /\ Went(1, "delivered", "cancelled") /\ orders[1].status = "cancelled"
  /\ Len(orders[1].statusTimeline) = 3
  /\ \E p \in Product : SumQty(orders[1].items, p) = 2
  /\ \A p \in Product : products[p].stock = initialStock[p] - SumQty(orders[1].items, p)

\* C29: an updateOrderStatus call that moves an order from a status other
\* than cancelled to another status other than cancelled changes no product's
\* stock.
C29_ActiveTransitionsKeepStock ==
  [][\A o \in 1..Len(orders), status \in Statuses \ {"cancelled"}, opt \in OptionInputs :
       (/\ orders[o].status # "cancelled"
        /\ status # orders[o].status
        /\ updateOrderStatus(o, status, opt.paymentStatus, opt.expectedDeliveryDate, opt.note))
         => /\ products' = products
            /\ orders'[o].status = status]_vars

\* the only order went forward to delivered and back to placed, and the stock
\* is what the checkout left
C29_Witness ==
  /\ Len(orders) = 1
  /\ Went(1, "placed", "accepted") /\ Went(1, "accepted", "delivered")
  /\ Went(1, "delivered", "placed") /\ orders[1].status = "placed"
  /\ ~anyFailed
  /\ \A p \in Product : products[p].stock = initialStock[p] - SumQty(orders[1].items, p)

\* C30: a successful updateOrderStatus call with a delivery date sets the
\* date; the note of the last timeline entry becomes the delivery message
\* when the order is then sent_to_delivery and that entry is a
\* sent_to_delivery entry, whatever note was sent and whether or not the
\* status changed; the date appends no entry of its own and every entry but
\* the last is as the status change left it.
C30_DeliveryDateBackPatch ==
  [][\A o \in 1..Len(orders), status \in StatusInputs, opt \in NoteInputs :
       (/\ opt.expectedDeliveryDate # NoDate
        /\ Reconcile(orders[o], products, status).error = "none"
        /\ updateOrderStatus(o, status, opt.paymentStatus, opt.expectedDeliveryDate, opt.note))
         => LET old == orders[o].statusTimeline
                new == orders'[o].statusTimeline
                changed == status # Absent /\ status # orders[o].status
                n == IF changed THEN Len(old) + 1 ELSE Len(old)
                pushed == [status |-> status,
                           note |-> IF opt.note # Absent THEN opt.note
                                    ELSE GeneratedNote(orders[o].status, status)]
                last == IF changed THEN pushed ELSE old[n]
            IN
            /\ orders'[o].expectedDeliveryDate = opt.expectedDeliveryDate
            /\ Len(new) = n
            /\ \A k \in 1..(n - 1) : new[k] = old[k]
            /\ new[n].status = last.status
            /\ new[n].note =
                 IF orders'[o].status = "sent_to_delivery" /\ last.status = "sent_to_delivery"
                   THEN DeliveryNote ELSE last.note]_vars

\* one order went out for delivery with a date and carries the delivery
\* message; the other got a date while placed and has its one entry untouched
C30_Witness ==
  /\ Len(orders) = 2
  /\ orders[1].expectedDeliveryDate = SomeDate
  /\ orders[1].statusTimeline =
       <<[status |-> "placed", note |-> PlacedNote],
         [status |-> "cancelled", note |-> CustomNote]>>
  /\ orders[2].expectedDeliveryDate = SomeDate
  /\ orders[2].statusTimeline =
       <<[status |-> "placed", note |-> PlacedNote],
         [status |-> "sent_to_delivery", note |-> DeliveryNote]>>

\* orderItemSchema.virtual("itemTotal"): price x (1 - discount/100) x quantity
\* of an item snapshot, in hundredths
itemTotal(item) == item.price * (100 - item.discount) * item.quantity

RECURSIVE SumItemTotals(_, _)
SumItemTotals(items, i) ==
  IF i > Len(items) THEN 0 ELSE itemTotal(items[i]) + SumItemTotals(items, i + 1)

\* C21: the totalAmount of every persisted order is the sum of the itemTotal
\* of its items, for every discount from 0 to 100.
C21_TotalAmountIsSumOfItemTotals ==
  \A o \in 1..Len(orders) : orders[o].totalAmount = SumItemTotals(orders[o].items, 1)

\* C22: no step changes the items (product, name, quantity, price, discount)
\* or the totalAmount of an order that exists, whether an administrator
\* edits or deletes a product or changes the order's status.
C22_SnapshotsAreImmune ==
  [][\A o \in 1..Len(orders) :
       /\ Len(orders') >= o
       /\ orders'[o].items = orders[o].items
       /\ orders'[o].totalAmount = orders[o].totalAmount]_vars

\* an order was accepted after its product was renamed and repriced, another
\* was cancelled and its product deleted; both carry what they were created with
C22_Witness ==
  \E o, c \in 1..Len(orders) :
    /\ orders[o].status = "accepted"
    /\ \E i \in 1..Len(orders[o].items) :
         LET item == orders[o].items[i] IN
         /\ prices[item.product].name = "renamed"
         /\ item.name = "listed" /\ item.price = ListPrices[item.product].price
    /\ orders[c].status = "cancelled"
    /\ \E i \in 1..Len(orders[c].items) : ~products[orders[c].items[i].product].exists
    /\ orders[o].totalAmount = SumItemTotals(orders[o].items, 1)

\* ---- C23: validateCoupon runs its checks in the order not found, inactive,
\* expired, usage cap reached, below the minimum purchase, and reports the
\* first that fails; it succeeds exactly when the coupon exists, isValid holds
\* and the cart total reaches the minimum purchase amount.
ExpectedOutcome(coupon, time, cartTotal) ==
  CASE ~coupon.exists -> "NotFound"
    [] coupon.exists /\ ~coupon.isActive -> "Inactive"
    [] coupon.exists /\ coupon.isActive /\ coupon.expiryDate # 0 /\ time > coupon.expiryDate
       -> "Expired"
    [] coupon.exists /\ coupon.isActive /\ ~(coupon.expiryDate # 0 /\ time > coupon.expiryDate)
       /\ coupon.usageLimit # 0 /\ coupon.usedCount >= coupon.usageLimit
       -> "UsageLimitReached"
    [] coupon.exists /\ isValid(coupon, time) /\ cartTotal < coupon.minPurchaseAmount
       -> "BelowMinimum"
    [] coupon.exists /\ isValid(coupon, time) /\ cartTotal >= coupon.minPurchaseAmount
       -> "ok"

C23_ValidationOrder ==
  [][\A code \in CodeInputs, cartTotal \in CartTotalInputs :
       validateCoupon(code, cartTotal) =>
         couponRes'.result = ExpectedOutcome(FindCoupon(coupons, code), now, cartTotal)]_vars

\* an expired coupon whose cap is also reached was reported as expired
C23_Witness ==
  /\ coupons["SAVE10"].exists /\ coupons["SAVE10"].isActive
  /\ coupons["SAVE10"].expiryDate # 0 /\ now > coupons["SAVE10"].expiryDate
  /\ coupons["SAVE10"].usageLimit # 0
  /\ coupons["SAVE10"].usedCount >= coupons["SAVE10"].usageLimit
  /\ couponRes.result = "Expired"

\* ---- C24: on success the discount is cartTotal * discountPercentage / 100
\* and the final amount cartTotal minus that discount, each rounded to the
\* nearest cent; a 10 percent coupon with minimum 100.00 gives 20.00 and
\* 180.00 on a total of 200.00.
Nearest(cents, x) == 100 * cents - x <= 50 /\ x - 100 * cents <= 50

C24_DiscountAndFinalAmount ==
  [][\A code \in CodeInputs, cartTotal \in CartTotalInputs :
       validateCoupon(code, cartTotal) =>
         LET coupon == FindCoupon(coupons, code)
             pct == coupon.discountPercentage
         IN  /\ couponRes'.result = "ok" =>
                  /\ Nearest(couponRes'.discountAmount, cartTotal * pct)
                  /\ Nearest(couponRes'.finalAmount, cartTotal * 100 - cartTotal * pct)
                  /\ (pct = 10 /\ cartTotal = 20000) =>
                       (couponRes'.discountAmount = 2000 /\ couponRes'.finalAmount = 18000)
             /\ (coupon.exists /\ isValid(coupon, now) /\ coupon.minPurchaseAmount = 10000
                 /\ cartTotal = 5000) => couponRes'.result = "BelowMinimum"]_vars

\* a total of 0.33 was validated: the discount 0.033 is reported as 0.03 and
\* the final amount 0.297 as 0.30
C24_Witness ==
  /\ couponRes.result = "ok"
  /\ couponRes.discountAmount = 3 /\ couponRes.finalAmount = 30

\* ---- C25: validateCoupon never writes to the coupon: usedCount and every
\* other field of every coupon are the same after the call, whatever its result.
C25_ValidateLeavesCouponsAlone ==
  [][\A code \in CodeInputs, cartTotal \in CartTotalInputs :
       validateCoupon(code, cartTotal) => coupons' = coupons]_vars

\* a capped coupon was validated successfully and still has no use counted
C25_Witness ==
  /\ couponRes.result = "ok"
  /\ coupons["SAVE10"].exists /\ coupons["SAVE10"].usageLimit = 1
  /\ coupons["SAVE10"].usedCount = 0

\* ---- C26: getOrder hands an existing order to the authenticated principal
\* exactly when the principal owns it or has role admin, and answers every
\* other principal Forbidden without the order; a status update by a principal
\* without role admin is refused and changes no order and no stock.
C26_OwnerOrAdminOnly ==
  [][/\ \A user \in Principal, o \in 1..MaxOrders :
          (getOrder(user, o) /\ o <= Len(orders)) =>
            IF orders[o].user = user.id \/ user.role = "admin"
              THEN orderRes'.result = "ok" /\ orderRes'.order = orders[o]
              ELSE orderRes'.result = "Forbidden" /\ orderRes'.order = NoOrder
     /\ \A user \in Principal, o \in 1..MaxOrders, status \in {"accepted", "cancelled"} :
          (putStatus(user, o, status, Absent, NoDate, Absent) /\ user.role # "admin") =>
            /\ orders' = orders /\ products' = products
            /\ orderRes'.result = "AdminRequired"]_vars

\* a customer asked for another customer's order and was refused
C26_Witness ==
  /\ Len(orders) > 0
  /\ orderRes.result = "Forbidden" /\ orderRes.order = NoOrder
  /\ orderRes.principal.role = "user"
  /\ \E o \in 1..Len(orders) : orders[o].user # orderRes.principal.id

\* ---- C27: when two addToCart requests on one cart and product run
\* concurrently while another party changes the product's stock, no stock goes
\* negative, an add changes no stock, and every accepted add raises the cart's
\* quantity of the product by its own quantity to a value within the stock the
\* add was validated against.
C27_ConcurrentAddsCounted ==
  [][\A r \in Request :
       (adSave(r) /\ adds'[r].result = "ok") =>
         /\ products' = products
         /\ \A p \in Product : products'[p].stock >= 0
         /\ SumQty(carts'[FirstBuyer].items, adds[r].p)
              = SumQty(carts[FirstBuyer].items, adds[r].p) + adds[r].quantity
         /\ SumQty(carts'[FirstBuyer].items, adds[r].p) <= adds[r].stock]_vars

\* ---- C31: no transition graph is enforced: a status update of an order in
\* status s to any other status t succeeds, unless s is cancelled and some
\* item's product has less stock than the item's quantity, in which case the
\* order is left as it was.
ShortOfStock(items, prods) ==
  \E i \in 1..Len(items) :
    prods[items[i].product].exists /\ prods[items[i].product].stock < items[i].quantity

C31_AnyStatusFollowsAny ==
  [][\A o \in 1..Len(orders), status \in Statuses, opt \in NoteInputs :
       (/\ status # orders[o].status
        /\ updateOrderStatus(o, status, opt.paymentStatus, opt.expectedDeliveryDate, opt.note))
       => IF orders[o].status = "cancelled" /\ ShortOfStock(orders[o].items, products)
            THEN orders' = orders
            ELSE /\ orders'[o].status = status
                 /\ Len(orders'[o].statusTimeline) = Len(orders[o].statusTimeline) + 1]_vars

\* an order left cancelled for delivered and delivered for placed
C31_Witness ==
  \E o \in 1..Len(orders) :
    /\ Went(o, "cancelled", "delivered")
    /\ Went(o, "delivered", "placed")

\* ---- C32: under every interleaving of getCart, addToCart and createOrder
\* requests of a user, the user has at most one cart; a cart is created, empty,
\* only when the user has none, and no cart document is ever removed:
\* createOrder empties the lines of the cart it loaded.
CartsOf(docs, u) == {k \in 1..Len(docs) : docs[k].user = u}

C32_OneCartPerUser ==
  /\ [](Cardinality(CartsOf(cartDocs, FirstBuyer)) <= 1)
  /\ [][/\ Len(cartDocs') >= Len(cartDocs)
        /\ \A k \in 1..Len(cartDocs) : cartDocs'[k].user = cartDocs[k].user
        /\ Len(cartDocs') > Len(cartDocs) =>
             /\ CartsOf(cartDocs, FirstBuyer) = {}
             /\ cartDocs'[Len(cartDocs')].items = <<>>
        /\ \A r \in Request : ocOrderClear(r) =>
             cartDocs'[jobs[r].cart].items = <<>> \/ cartDocs' = cartDocs]_vars

\* an order was created and the user's one cart is still there, emptied,
\* while another request is about to create a cart it did not find
C32_Witness ==
  /\ Len(cartDocs) = 1 /\ cartDocs[1].items = <<>>
  /\ Len(orders) >= 1

\* ---- C36: when two createOrder requests of one user run concurrently on
\* the same cart contents, at most one order is created from those contents:
\* no request creates an order from a loaded cart from which another request
\* has created one and not yet emptied it.
C36_OneOrderPerCartContents ==
  [][\A r \in Request, n \in OrderNumber :
       (ocOrderCreate(r, n) /\ Len(orders') > Len(orders)) =>
         ~\E other \in Request \ {r} :
            /\ jobs[other].pc = "orderClear"
            /\ jobs[other].cart = jobs[r].cart
            /\ jobs[other].v = jobs[r].v
            /\ jobs[other].items = jobs[r].items]_vars

\* ---- C33: the server listens whether or not the first connection to the
\* database succeeded, and a request is answered by a handler only if the
\* connection was active when the request came in or a reconnect made for the
\* request succeeded; every other request is answered with 503.
C33_HandlerOnlyWhenConnected ==
  \A k \in 1..Len(log) :
    IF log[k].readyState = 1 \/ log[k].reconnected
      THEN log[k].answer = "handler"
      ELSE log[k].answer = "503"

\* ---- C34: an order holds at most one reservation at any time: while one
\* order exists and every call has succeeded, what is missing from the stock
\* of a product is nothing (the order's quantity was added back as often as it
\* was subtracted) or the order's quantity of it once (it was subtracted once
\* more than it was added back).
C34_AtMostOneReservation ==
  (Len(orders) = 1 /\ ~anyFailed) =>
    \A p \in Product :
      \/ initialStock[p] - products[p].stock = 0
      \/ initialStock[p] - products[p].stock = SumQty(orders[1].items, p)

\* ---- C35: when two concurrent status updates both cancel the same order,
\* which both found placed, accepted, packing or sent_to_delivery, the order's
\* quantities are added back to stock once: with that one order in the system
\* and both requests answered, every product's stock is its initial stock.
C35_ConcurrentCancelsRestoreOnce ==
  (/\ Len(orders) = 1
   /\ \A a \in Admin :
        /\ adm[a].pc = "done" /\ adm[a].o = 1
        /\ adm[a].status = "cancelled" /\ adm[a].order.status \in Cancellable)
  => \A p \in Product : products[p].stock = initialStock[p]

\* ---- C37: after any sequence of createOrder and updateOrderStatus calls,
\* the timeline of every order is non-empty, starts with an entry of status
\* placed and ends with an entry of the order's current status.
C37_TimelineBracketsStatus ==
  \A o \in 1..Len(orders) :
    /\ Len(orders[o].statusTimeline) >= 1
    /\ orders[o].statusTimeline[1].status = "placed"
    /\ orders[o].statusTimeline[Len(orders[o].statusTimeline)].status = orders[o].status

\* an order that has changed its status twice and is no longer placed
C37_Witness ==
  \E o \in 1..Len(orders) :
    /\ Len(orders[o].statusTimeline) >= 3
    /\ orders[o].status # "placed"

\* at most one line per product, every quantity at least 1
OneLinePerProduct(items) ==
  /\ \A i, j \in 1..Len(items) : items[i].product = items[j].product => i = j
  /\ \A i \in 1..Len(items) : items[i].quantity >= 1

\* ---- C38: after any sequence of getCart, addToCart, updateCartItem,
\* removeFromCart, clearCart and createOrder calls of a user, the cart has at
\* most one line per product and every line's quantity is at least 1, and so
\* has every order.
C38_OneLinePerProduct ==
  /\ \A u \in User : OneLinePerProduct(carts[u].items)
  /\ \A o \in 1..Len(orders) : OneLinePerProduct(orders[o].items)

\* the order has an item whose product is gone
HasMissingProduct(order) ==
  \E i \in 1..Len(order.items) : ~products[order.items[i].product].exists

\* the stock the order's remaining products have after their quantities are
\* added (sign = 1) or taken (sign = -1); the products that are gone stay as
\* they are
RemainingAdjusted(order, sign) ==
  [p \in Product |->
     IF products[p].exists
       THEN [products[p] EXCEPT !.stock = @ + sign * SumQty(order.items, p)]
       ELSE products[p]]

====
